---- MODULE Spec2Model ----
(***************************************************************************)
(* A model of the plot-type plugin architecture of Plot_Generator:         *)
(*   - core/plot_registry.py : PlotRegistry (singleton, discovery,         *)
(*     explicit registration, lookup, instantiation, descriptors)          *)
(*   - core/base_plotter.py  : BasePlotter.plot() template method          *)
(*   - plotters/*/*.py       : the six chart types                         *)
(*   - app.py                : the caller's dispatch on required params    *)
(*                                                                         *)
(* Strings that the code builds or takes apart (plot identifiers) are      *)
(* sequences of tokens, "." being a token of its own, so that              *)
(* f"{category}.{name}" is a concatenation and not an opaque value.        *)
(***************************************************************************)
EXTENDS Integers, Sequences, FiniteSets, TLC

None == "None"
Dot == "."

(***************************************************************************)
(* Bounds of the model.                                                    *)
(***************************************************************************)
MaxRegisters == 1
MaxPackageImports == 1
MaxCols == 3
MaxFigures == 3
MaxCount == 3
MaxPaletteCalls == 2
MaxExports == 2

(***************************************************************************)
(* The chart types and the layout of the plotters directory.               *)
(***************************************************************************)
Classes ==
  {"LinePlotter", "BarPlotter", "ScatterPlotter",
   "HistogramPlotter", "BoxPlotter", "HeatmapPlotter"}

\* str.lower() on the tokens the model uses
Lower(tok) ==
  CASE tok = "LinePlotter" -> "lineplotter"
    [] tok = "BarPlotter" -> "barplotter"
    [] tok = "ScatterPlotter" -> "scatterplotter"
    [] tok = "HistogramPlotter" -> "histogramplotter"
    [] tok = "BoxPlotter" -> "boxplotter"
    [] tok = "HeatmapPlotter" -> "heatmapplotter"
    [] tok = "Bar" -> "bar"
    [] tok = "Grouped" -> "grouped"
    [] OTHER -> tok

\* the category directories of plotters/ and the chart modules in each
PlottersDir ==
  << [category |-> "temporal", modules |-> <<"line">>],
     [category |-> "categorical", modules |-> <<"bar">>],
     [category |-> "statistical",
      modules |-> <<"boxplot", "heatmap", "histogram", "scatter">>] >>

Modules == {"line", "bar", "boxplot", "heatmap", "histogram", "scatter"}

\* inspect.getmembers(module) filtered to the BasePlotter subclasses
ModuleMembers(m) ==
  CASE m = "line" -> <<"LinePlotter">>
    [] m = "bar" -> <<"BarPlotter">>
    [] m = "boxplot" -> <<"BoxPlotter">>
    [] m = "heatmap" -> <<"HeatmapPlotter">>
    [] m = "histogram" -> <<"HistogramPlotter">>
    [] m = "scatter" -> <<"ScatterPlotter">>

ModuleOf(cls) == CHOOSE m \in Modules : ModuleMembers(m) = <<cls>>

\* the class attribute `category` as each class body sets it
DeclaredCategory(cls) ==
  CASE cls = "LinePlotter" -> "temporal"
    [] cls = "BarPlotter" -> "categorical"
    [] OTHER -> "statistical"

\* the class attribute `name`
DisplayName(cls) ==
  CASE cls = "LinePlotter" -> "Line Plot"
    [] cls = "BarPlotter" -> "Bar Chart"
    [] cls = "ScatterPlotter" -> "Scatter Plot"
    [] cls = "HistogramPlotter" -> "Histogram"
    [] cls = "BoxPlotter" -> "Box Plot"
    [] cls = "HeatmapPlotter" -> "Heatmap"

\* the class attributes `description`, `required_columns` and
\* `supports_multiple_series`
Description(cls) ==
  CASE cls = "LinePlotter" -> "Display trends over time or continuous data"
    [] cls = "BarPlotter" -> "Compare values across categories"
    [] cls = "ScatterPlotter" ->
         "Visualize relationships between two continuous variables"
    [] cls = "HistogramPlotter" ->
         "Visualize the distribution of a continuous variable"
    [] cls = "BoxPlotter" ->
         "Display statistical summary with quartiles and outliers"
    [] cls = "HeatmapPlotter" ->
         "Visualize matrix data or correlations with color encoding"

RequiredColumns(cls) ==
  CASE cls \in {"LinePlotter", "HistogramPlotter", "BoxPlotter"} -> 1
    [] cls \in {"BarPlotter", "ScatterPlotter", "HeatmapPlotter"} -> 2

SupportsMultipleSeries(cls) == cls # "HeatmapPlotter"

Reverse(s) == [i \in 1..Len(s) |-> s[Len(s) + 1 - i]]

(***************************************************************************)
(* Datasets.  A table is its row count and the kinds of its columns, in    *)
(* column order; a column is named by its position.  NoData is None;       *)
(* NotATable is a value that is no DataFrame (a list of rows, say).        *)
(***************************************************************************)
NoData == [kind |-> "None", rows |-> 0, cols |-> <<>>, cells |-> <<>>]
NotATable == [kind |-> "object", rows |-> 0, cols |-> <<>>, cells |-> <<>>]

\* cells[c][r] is the value of column c in row r: a number, which in a
\* column of strings stands for the label of that number
Table(rows, cols) ==
  [kind |-> "table", rows |-> rows, cols |-> cols,
   cells |-> [c \in 1..Len(cols) |-> [r \in 1..rows |-> c + r]]]

\* a cell without a value (None, NaN)
Missing == 0

\* tables whose columns repeat one value in every row, and tables whose
\* columns of strings have no value in the first row
RepeatedTable(rows, cols) ==
  [Table(rows, cols) EXCEPT
     !.cells = [c \in 1..Len(cols) |-> [r \in 1..rows |-> c + 1]]]

MissingTable(rows, cols) ==
  [Table(rows, cols) EXCEPT
     !.cells = [c \in 1..Len(cols) |->
                  [r \in 1..rows |->
                     IF cols[c] = "str" /\ r = 1 THEN Missing ELSE c + r]]]

(***************************************************************************)
(* State.                                                                  *)
(***************************************************************************)
VARIABLES
  loadOutcome,    \* environment: what importing each chart module does
  dirOrder,       \* environment: the order iterdir()/glob() list entries in
  library,        \* environment: the generation of the numeric libraries
  instance,       \* PlotRegistry._instance (0: None, else the object's id)
  objects,        \* number of PlotRegistry objects __new__ has allocated
  initialized,    \* _instance._initialized
  plots,          \* PlotRegistry._plots : id -> class
  categories,     \* PlotRegistry._categories : ordered category -> [id]
  classCategory,  \* the `category` attribute of each class object
  initDiscoveries,\* number of discover_plots runs started by __init__
  registers,      \* number of explicit register calls made (bounded)
  pkgImports,     \* number of times the body of plotters/__init__.py ran
  pkgLoaded,      \* the plotters package is in sys.modules
  regLast,        \* the last registry operation and what it returned
  plotter,        \* the plotter instance under study
  nextFig,        \* figures allocated so far by plt.subplots
  plotLast,       \* the last plotter operation and what it returned
  stored,         \* config/palettes.py: the palette lists, by name
  custom_colors,  \* st.session_state.custom_colors (set: the key is there)
  palLast,        \* the last get_palette call and what it returned
  writable,       \* environment: the application's directories can be written
  exportsPresent, \* settings.EXPORTS_DIR exists
  files,          \* the files written so far
  expLast,        \* the last export call and what it returned
  session_data,   \* st.session_state.data
  current_plot,   \* st.session_state.current_plot (a figure's number, 0: None)
  plotter_instance, \* st.session_state.plotter_instance (NoPlotter: None)
  sessLast        \* the last request of the session and how it ended

vars ==
  << loadOutcome, dirOrder, library, instance, objects, initialized, plots, categories,
     classCategory, initDiscoveries, registers, pkgImports, pkgLoaded, regLast,
     plotter, nextFig, plotLast, stored, custom_colors, palLast, writable,
     exportsPresent, files, expLast, session_data, current_plot,
     plotter_instance, sessLast >>

envVars == << loadOutcome, dirOrder, library >>
regVars ==
  << instance, objects, initialized, plots, categories, classCategory,
     initDiscoveries, registers, pkgImports, pkgLoaded, regLast >>
plotVars == << plotter, nextFig, plotLast >>
palVars == << stored, custom_colors, palLast >>
expVars == << writable, exportsPresent, files, expLast >>
sessVars == << session_data, current_plot, plotter_instance, sessLast >>
appVars == << palVars, expVars, sessVars >>

(***************************************************************************)
(* dict helpers.  _plots is a function on the set of bound ids;            *)
(* _categories is an insertion-ordered dict: a sequence of (key, value).   *)
(***************************************************************************)
EmptyMap == [x \in {} |-> None]

MapSet(M, k, v) == [x \in DOMAIN M \cup {k} |-> IF x = k THEN v ELSE M[x]]

CatKeys(C) == [i \in 1..Len(C) |-> C[i].key]

CatHas(C, k) == \E i \in 1..Len(C) : C[i].key = k

CatGet(C, k) == C[CHOOSE i \in 1..Len(C) : C[i].key = k].ids

\* d[k] = v : an existing key keeps its position, a new key goes last
CatSet(C, k, v) ==
  IF CatHas(C, k)
  THEN [i \in 1..Len(C) |-> IF C[i].key = k THEN [key |-> k, ids |-> v] ELSE C[i]]
  ELSE Append(C, [key |-> k, ids |-> v])

MakeId(category, plot_name) == <<category, Dot>> \o plot_name

(***************************************************************************)
(* PlotRegistry.discover_plots                                             *)
(***************************************************************************)
\* self._categories[category] = []
ResetCategory_keep(C, category) ==
  IF CatHas(C, category) THEN C ELSE CatSet(C, category, <<>>)

ResetCategory(C, category) == CatSet(C, category, <<>>)

\* the body of the getmembers loop: bind every plotter class of one module
RECURSIVE BindMembers(_, _, _, _)
BindMembers(category, members, i, st) ==
  IF i > Len(members) THEN st
  ELSE LET obj == members[i]
           plot_id == MakeId(category, <<Lower(obj)>>)
       IN BindMembers(category, members, i + 1,
            [st EXCEPT !.plots = MapSet(@, plot_id, obj),
                       !.cats = CatSet(@, category,
                                       Append(CatGet(@, category), plot_id))])

\* the module loop of one category directory: try/except ImportError only
RECURSIVE ScanModules(_, _, _, _, _)
ScanModules(category, mods, i, st, outcome) ==
  IF i > Len(mods) \/ st.raised THEN st
  ELSE LET m == mods[i] IN
       CASE outcome[m] = "ok" ->
              ScanModules(category, mods, i + 1,
                          BindMembers(category, ModuleMembers(m), 1, st), outcome)
         [] outcome[m] = "ImportError" ->
              ScanModules(category, mods, i + 1,
                          [st EXCEPT !.log = Append(@, [kind |-> "import_failed",
                                                        module |-> m])],
                          outcome)
         [] OTHER -> [st EXCEPT !.raised = TRUE]

RECURSIVE ScanCategories(_, _, _, _)
ScanCategories(dir, ci, st, outcome) ==
  IF ci > Len(dir) \/ st.raised THEN st
  ELSE LET category == dir[ci].category
           mods == dir[ci].modules
       IN ScanCategories(dir, ci + 1,
            ScanModules(category, mods, 1,
                        [st EXCEPT !.cats = ResetCategory(@, category)], outcome),
            outcome)

\* iterdir() and glob() promise no order
Listing(order) ==
  IF order = "forward" THEN PlottersDir
  ELSE Reverse([i \in 1..Len(PlottersDir) |->
                  [category |-> PlottersDir[i].category,
                   modules |-> Reverse(PlottersDir[i].modules)]])

discover_plots(P, C, outcome, order) ==
  ScanCategories(Listing(order), 1,
                 [plots |-> P, cats |-> C, log |-> <<>>, raised |-> FALSE],
                 outcome)

(***************************************************************************)
(* PlotRegistry.__new__ / __init__ : the effect of one PlotRegistry() on   *)
(* the registry's state R (the class attributes and the instance's flag).  *)
(* discovered, raised and log describe the call itself.                    *)
(***************************************************************************)
\* `if not self._initialized:` of __init__
InitGuard_always(flag) == TRUE

InitGuard(flag) == ~flag

Constructed(R, outcome, order) ==
  LET fresh == R.instance = 0
      inst == IF fresh THEN R.objects + 1 ELSE R.instance
      flag == IF fresh THEN FALSE ELSE R.initialized
      run == InitGuard(flag)
      d == IF run THEN discover_plots(R.plots, R.cats, outcome, order)
           ELSE [plots |-> R.plots, cats |-> R.cats, log |-> <<>>,
                 raised |-> FALSE]
  IN [R EXCEPT !.instance = inst,
               !.objects = IF fresh THEN R.objects + 1 ELSE R.objects,
               !.initialized = IF run THEN TRUE ELSE flag,
               !.initDiscoveries = IF run THEN @ + 1 ELSE @,
               !.discovered = run,
               !.plots = d.plots, !.cats = d.cats, !.log = @ \o d.log,
               !.raised = d.raised]

\* the registry's state as the variables hold it, before a call
Registry ==
  [instance |-> instance, objects |-> objects, initialized |-> initialized,
   plots |-> plots, cats |-> categories, clsCat |-> classCategory,
   initDiscoveries |-> initDiscoveries,
   discovered |-> FALSE, raised |-> FALSE, log |-> <<>>]

Store(R) ==
  /\ instance' = R.instance
  /\ objects' = R.objects
  /\ initialized' = R.initialized
  /\ plots' = R.plots
  /\ categories' = R.cats
  /\ classCategory' = R.clsCat
  /\ initDiscoveries' = R.initDiscoveries

DefaultConfig == "PlotConfig()"

\* the fields the chart types' __init__ set; a column is its 1-based position
\* in the dataset, 0 standing for None; figure and axes are the figure's
\* number, 0 standing for None; colors is the row count of the color array
\* set_styles builds, -1 standing for None
NewPlotter(cls, data, config) ==
  [cls |-> cls, data |-> data,
   config |-> IF config = None THEN DefaultConfig ELSE config,
   figure |-> 0, axes |-> 0,
   x_column |-> 0, y_columns |-> <<>>, y_column |-> 0,
   value_column |-> 0, value_columns |-> <<>>, group_column |-> 0,
   size_column |-> 0, color_column |-> 0,
   grouped |-> FALSE, stacked |-> FALSE, colors |-> -1,
   correlation |-> FALSE, vmin |-> None, vmax |-> None]

NoPlotter == [NewPlotter(None, NoData, None) EXCEPT !.config = None]

\* the {} get_plot_info returns for an id that is not bound
NoInfo ==
  [found |-> FALSE, id |-> <<>>, name |-> None, category |-> None,
   description |-> None, required_columns |-> 0,
   supports_multiple_series |-> FALSE, required_params |-> <<>>,
   optional_params |-> <<>>]

\* what the last call on the registry was given and what it returned:
\* info is the dict get_plot_info returned, category and listing the argument
\* and the result of get_plots_in_category, prev the class the id of a
\* registration was bound to before it
NoLast ==
  [op |-> "none", discovered |-> FALSE, raised |-> FALSE, result |-> None,
   id |-> <<>>, log |-> <<>>, data |-> NoData, config |-> None,
   instance |-> 0, plotter |-> NoPlotter, again |-> FALSE,
   info |-> NoInfo, category |-> None, listing |-> <<>>, prev |-> None]

Construct ==
  LET c == Constructed(Registry, loadOutcome, dirOrder) IN
  /\ Store(c)
  /\ regLast' = [NoLast EXCEPT !.op = "construct", !.discovered = c.discovered,
                               !.raised = c.raised, !.log = c.log,
                               !.instance = c.instance,
                               !.result = IF c.raised THEN "raised" ELSE "instance"]
  /\ UNCHANGED << registers, pkgImports, pkgLoaded >>
  /\ UNCHANGED envVars
  /\ UNCHANGED appVars
  /\ UNCHANGED plotVars

\* the call was one run of discover_plots and nothing else
PureDiscovery(last) == last.op \in {"construct", "discover"} /\ last.discovered

\* a direct call of plot_registry.discover_plots(); `again` notes that the
\* call before it was a run of discover_plots too
Discover ==
  /\ instance # 0
  /\ LET d == discover_plots(plots, categories, loadOutcome, dirOrder) IN
     /\ plots' = d.plots
     /\ categories' = d.cats
     /\ regLast' = [NoLast EXCEPT !.op = "discover", !.discovered = TRUE,
                                  !.again = PureDiscovery(regLast),
                                  !.raised = d.raised, !.log = d.log,
                                  !.instance = instance,
                                  !.result = IF d.raised THEN "raised" ELSE None]
  /\ UNCHANGED << instance, objects, initialized, classCategory, initDiscoveries,
                  registers, pkgImports, pkgLoaded >>
  /\ UNCHANGED envVars
  /\ UNCHANGED appVars
  /\ UNCHANGED plotVars

(***************************************************************************)
(* PlotRegistry.register(category, name)(plotter_class)                    *)
(***************************************************************************)
\* the registrations callers make: a new id in a discovered category, an id
\* discovery also binds (to another type), a new category, the same id for
\* two types, the id register_all_plots binds, and a name written with
\* capitals and a dot ('Grouped.Bar')
RegCalls ==
  { [category |-> "categorical", name |-> <<>>, cls |-> "LinePlotter"],
    [category |-> "categorical", name |-> <<"barplotter">>, cls |-> "LinePlotter"],
    [category |-> "custom", name |-> <<"bar">>, cls |-> "BarPlotter"],
    [category |-> "custom", name |-> <<"bar">>, cls |-> "LinePlotter"],
    [category |-> "categorical", name |-> <<"bar">>, cls |-> "BarPlotter"],
    [category |-> "custom", name |-> <<"Grouped", Dot, "Bar">>,
     cls |-> "BarPlotter"] }

\* dict.setdefault in place of the assignment
register_keep(R, category, name, plotter_class, outcome, order) ==
  LET c == Constructed(R, outcome, order)
      plot_name == IF name # <<>> THEN name ELSE <<Lower(plotter_class)>>
      plot_id == MakeId(category, plot_name)
      cats1 == IF ~CatHas(c.cats, category) THEN CatSet(c.cats, category, <<>>)
               ELSE c.cats
  IN IF c.raised THEN c
     ELSE [c EXCEPT !.plots = IF plot_id \in DOMAIN @ THEN @
                              ELSE MapSet(@, plot_id, plotter_class),
                    !.cats = CatSet(cats1, category,
                                    Append(CatGet(cats1, category), plot_id)),
                    !.clsCat = [@ EXCEPT ![plotter_class] = category]]

\* name is <<>> when the caller gives none
register(R, category, name, plotter_class, outcome, order) ==
  LET c == Constructed(R, outcome, order)
      plot_name == IF name # <<>> THEN name ELSE <<Lower(plotter_class)>>
      plot_id == MakeId(category, plot_name)
      cats1 == IF ~CatHas(c.cats, category) THEN CatSet(c.cats, category, <<>>)
               ELSE c.cats
  IN IF c.raised THEN c
     ELSE [c EXCEPT !.plots = MapSet(@, plot_id, plotter_class),
                    !.cats = CatSet(cats1, category,
                                    Append(CatGet(cats1, category), plot_id)),
                    !.clsCat = [@ EXCEPT ![plotter_class] = category]]

Register ==
  /\ registers < MaxRegisters
  /\ \E call \in RegCalls :
       /\ loadOutcome[ModuleOf(call.cls)] = "ok"
       /\ LET r == register(Registry, call.category, call.name, call.cls,
                            loadOutcome, dirOrder) IN
          /\ Store(r)
          /\ regLast' = [NoLast EXCEPT !.op = "register",
                           !.id = MakeId(call.category,
                                         IF call.name # <<>> THEN call.name
                                         ELSE <<Lower(call.cls)>>),
                           !.prev =
                             LET plot_id ==
                                   MakeId(call.category,
                                          IF call.name # <<>> THEN call.name
                                          ELSE <<Lower(call.cls)>>)
                             IN IF plot_id \in DOMAIN plots THEN plots[plot_id]
                                ELSE None,
                           !.discovered = r.discovered,
                           !.raised = r.raised, !.log = r.log,
                           !.instance = r.instance,
                           !.result = IF r.raised THEN "raised" ELSE call.cls]
  /\ registers' = registers + 1
  /\ UNCHANGED << pkgImports, pkgLoaded >>
  /\ UNCHANGED envVars
  /\ UNCHANGED appVars
  /\ UNCHANGED plotVars

(***************************************************************************)
(* plotters/__init__.py : register_all_plots, run when the package loads   *)
(***************************************************************************)
AllPlots ==
  << [category |-> "temporal", name |-> <<"line">>, cls |-> "LinePlotter"],
     [category |-> "categorical", name |-> <<"bar">>, cls |-> "BarPlotter"],
     [category |-> "statistical", name |-> <<"scatter">>, cls |-> "ScatterPlotter"],
     [category |-> "statistical", name |-> <<"histogram">>,
      cls |-> "HistogramPlotter"],
     [category |-> "statistical", name |-> <<"boxplot">>, cls |-> "BoxPlotter"],
     [category |-> "statistical", name |-> <<"heatmap">>, cls |-> "HeatmapPlotter"] >>

RECURSIVE register_all_plots(_, _, _, _)
register_all_plots(R, i, outcome, order) ==
  IF i > Len(AllPlots) \/ R.raised THEN R
  ELSE LET e == AllPlots[i]
           how == outcome[ModuleOf(e.cls)]
       IN CASE how = "ok" ->
                 register_all_plots(
                   register(R, e.category, e.name, e.cls, outcome, order),
                   i + 1, outcome, order)
            [] how = "ImportError" ->
                 register_all_plots(
                   [R EXCEPT !.log = Append(@, [kind |-> "register_failed",
                                                module |-> ModuleOf(e.cls)])],
                   i + 1, outcome, order)
            [] OTHER -> [R EXCEPT !.raised = TRUE]

\* `import plotters`: the package body runs unless an earlier run completed;
\* its first line imports core.plot_registry, whose last line is
\* plot_registry = PlotRegistry()
ImportPlotters ==
  /\ ~pkgLoaded
  /\ pkgImports < MaxPackageImports
  /\ LET r == register_all_plots(Constructed(Registry, loadOutcome, dirOrder), 1,
                                 loadOutcome, dirOrder) IN
     /\ Store(r)
     /\ pkgLoaded' = ~r.raised
     /\ regLast' = [NoLast EXCEPT !.op = "register_all", !.raised = r.raised,
                                  !.discovered = instance = 0,
                                  !.log = r.log, !.instance = r.instance,
                                  !.result = IF r.raised THEN "raised" ELSE None]
  /\ pkgImports' = pkgImports + 1
  /\ UNCHANGED registers
  /\ UNCHANGED envVars
  /\ UNCHANGED appVars
  /\ UNCHANGED plotVars

(***************************************************************************)
(* PlotRegistry.get_plot / create_plot and BasePlotter.__init__            *)
(***************************************************************************)
get_plot_first(P, plot_id) ==
  IF plot_id \in DOMAIN P THEN P[plot_id]
  ELSE IF DOMAIN P # {} THEN P[CHOOSE k \in DOMAIN P : TRUE] ELSE None

get_plot(P, plot_id) == IF plot_id \in DOMAIN P THEN P[plot_id] ELSE None

Registry_create_plot(P, plot_id, data, config) ==
  LET plot_class == get_plot(P, plot_id) IN
  IF plot_class # None THEN NewPlotter(plot_class, data, config) ELSE NoPlotter

\* the ids callers ask for: one discovery binds, one only registration
\* binds, one nobody binds
AskIds ==
  { MakeId("categorical", <<"barplotter">>), MakeId("custom", <<"bar">>),
    MakeId("statistical", <<"nosuchplot">>) }

\* (data, config) as callers pass them
AskArgs ==
  { [data |-> NoData, config |-> None],
    [data |-> Table(2, <<"str", "num">>), config |-> "session_config"] }

\* the plotter handed out is part of what the call returned
CreatePlot ==
  /\ instance # 0
  /\ \E plot_id \in AskIds, a \in AskArgs :
       LET p == Registry_create_plot(plots, plot_id, a.data, a.config) IN
       regLast' = [NoLast EXCEPT !.op = "create_plot", !.id = plot_id,
                                 !.instance = instance,
                                 !.data = a.data, !.config = a.config,
                                 !.plotter = p,
                                 !.result = IF p = NoPlotter THEN None
                                            ELSE "plotter"]
  /\ UNCHANGED << instance, objects, initialized, plots, categories,
                  classCategory, initDiscoveries, registers, pkgImports,
                  pkgLoaded >>
  /\ UNCHANGED envVars
  /\ UNCHANGED appVars
  /\ UNCHANGED plotVars

(***************************************************************************)
(* The parameter schemas, PlotRegistry.get_plot_info, and the caller's     *)
(* dispatch on the collected required params (app.py).                     *)
(***************************************************************************)
Param(name, kind) == [name |-> name, kind |-> kind]

get_required_params_pasted(cls) ==
  CASE cls \in {"BarPlotter", "LinePlotter", "ScatterPlotter"} ->
         <<Param("x_column", "str"), Param("y_columns", "list")>>
    [] cls = "HistogramPlotter" -> <<Param("value_column", "str")>>
    [] OTHER -> <<Param("value_columns", "list")>>

\* the dict each class's get_required_params returns, in insertion order
get_required_params(cls) ==
  CASE cls \in {"BarPlotter", "LinePlotter"} ->
         <<Param("x_column", "str"), Param("y_columns", "list")>>
    [] cls = "ScatterPlotter" ->
         <<Param("x_column", "str"), Param("y_column", "str")>>
    [] cls = "HistogramPlotter" -> <<Param("value_column", "str")>>
    [] cls \in {"BoxPlotter", "HeatmapPlotter"} ->
         <<Param("value_columns", "list")>>

\* the parameters of each class's set_columns after self, in order, and
\* whether each has a default
Arg(name, hasDefault) == [name |-> name, hasDefault |-> hasDefault]

SetColumnsSignature(cls) ==
  CASE cls \in {"BarPlotter", "LinePlotter"} ->
         <<Arg("x_column", FALSE), Arg("y_columns", FALSE)>>
    [] cls = "ScatterPlotter" ->
         <<Arg("x_column", FALSE), Arg("y_column", FALSE),
           Arg("size_column", TRUE), Arg("color_column", TRUE)>>
    [] cls = "HistogramPlotter" ->
         <<Arg("value_column", FALSE), Arg("group_column", TRUE)>>
    [] cls = "BoxPlotter" ->
         <<Arg("value_columns", FALSE), Arg("group_column", TRUE)>>
    [] cls = "HeatmapPlotter" -> <<Arg("value_columns", TRUE)>>

\* the dict each class's get_optional_params returns, in insertion order
get_optional_params(cls) ==
  CASE cls = "BarPlotter" ->
         <<Param("orientation", "str"), Param("grouped", "bool"),
           Param("stacked", "bool"), Param("bar_width", "float"),
           Param("colors", "list"), Param("error_bars", "bool")>>
    [] cls = "LinePlotter" ->
         <<Param("colors", "list"), Param("line_styles", "list"),
           Param("markers", "list"), Param("smooth", "bool"),
           Param("fill_between", "bool")>>
    [] cls = "ScatterPlotter" ->
         <<Param("size_column", "str"), Param("color_column", "str"),
           Param("fit_line", "bool"), Param("confidence_band", "bool"),
           Param("alpha", "float"), Param("marker_style", "str")>>
    [] cls = "HistogramPlotter" ->
         <<Param("group_column", "str"), Param("bins", "int"),
           Param("density", "bool"), Param("cumulative", "bool"),
           Param("kde", "bool"), Param("stat", "str")>>
    [] cls = "BoxPlotter" ->
         <<Param("group_column", "str"), Param("orientation", "str"),
           Param("show_outliers", "bool"), Param("show_means", "bool"),
           Param("notch", "bool")>>
    [] cls = "HeatmapPlotter" ->
         <<Param("correlation", "bool"), Param("annotate", "bool"),
           Param("cmap", "str"), Param("fmt", "str")>>

get_plot_info_rebuilt(P, K, plot_id) ==
  LET plot_class == get_plot(P, plot_id) IN
  IF plot_class # None
  THEN [found |-> TRUE,
        id |-> MakeId(K[plot_class], <<Lower(plot_class)>>),
        name |-> DisplayName(plot_class),
        category |-> K[plot_class],
        description |-> Description(plot_class),
        required_columns |-> RequiredColumns(plot_class),
        supports_multiple_series |-> SupportsMultipleSeries(plot_class),
        required_params |-> get_required_params(plot_class),
        optional_params |-> get_optional_params(plot_class)]
  ELSE NoInfo

\* the descriptor of the class bound to plot_id; K holds the `category`
\* attribute of each class object.  found tells the dict from {}
get_plot_info(P, K, plot_id) ==
  LET plot_class == get_plot(P, plot_id) IN
  IF plot_class # None
  THEN [found |-> TRUE,
        id |-> plot_id,
        name |-> DisplayName(plot_class),
        category |-> K[plot_class],
        description |-> Description(plot_class),
        required_columns |-> RequiredColumns(plot_class),
        supports_multiple_series |-> SupportsMultipleSeries(plot_class),
        required_params |-> get_required_params(plot_class),
        optional_params |-> get_optional_params(plot_class)]
  ELSE NoInfo

\* a call of plot_registry.get_plot_info(plot_id)
GetPlotInfo ==
  /\ instance # 0
  /\ \E plot_id \in AskIds :
       LET info == get_plot_info(plots, classCategory, plot_id) IN
       regLast' = [NoLast EXCEPT !.op = "get_plot_info", !.id = plot_id,
                                 !.instance = instance, !.info = info,
                                 !.result = IF info.found THEN "dict" ELSE "{}"]
  /\ UNCHANGED << instance, objects, initialized, plots, categories,
                  classCategory, initDiscoveries, registers, pkgImports,
                  pkgLoaded >>
  /\ UNCHANGED envVars
  /\ UNCHANGED appVars
  /\ UNCHANGED plotVars

(***************************************************************************)
(* PlotRegistry.get_categories / get_plots_in_category                     *)
(***************************************************************************)
get_categories(C) == CatKeys(C)

\* dict.setdefault in place of dict.get
get_plots_in_category_setdefault(C, category) ==
  IF CatHas(C, category) THEN [ids |-> CatGet(C, category), cats |-> C]
  ELSE [ids |-> <<>>, cats |-> CatSet(C, category, <<>>)]

\* self._categories.get(category, []): the list returned and _categories
\* after the call
get_plots_in_category(C, category) ==
  IF CatHas(C, category) THEN [ids |-> CatGet(C, category), cats |-> C]
  ELSE [ids |-> <<>>, cats |-> C]

\* the categories callers ask for: one discovery lists, one only
\* registration lists, one nobody lists
AskCategories == {"statistical", "custom", "nosuchcategory"}

GetPlotsInCategory ==
  /\ instance # 0
  /\ \E category \in AskCategories :
       LET r == get_plots_in_category(categories, category) IN
       /\ categories' = r.cats
       /\ regLast' = [NoLast EXCEPT !.op = "get_plots_in_category",
                                    !.instance = instance,
                                    !.category = category,
                                    !.listing = r.ids, !.result = "list"]
  /\ UNCHANGED << instance, objects, initialized, plots, classCategory,
                  initDiscoveries, registers, pkgImports, pkgLoaded >>
  /\ UNCHANGED envVars
  /\ UNCHANGED appVars
  /\ UNCHANGED plotVars

(***************************************************************************)
(* create_plot_tab (app.py): the caller lists a category's ids, shows the   *)
(* text after the last dot of each, and builds the id of the one chosen.   *)
(***************************************************************************)
\* str.islower() over the tokens of an id
IsLower(plot_id) == \A i \in 1..Len(plot_id) : Lower(plot_id[i]) = plot_id[i]

\* p.split('.')[-1]
AfterLastDot(plot_id) ==
  LET dots == { i \in 1..Len(plot_id) : plot_id[i] = Dot }
      last == IF dots = {} THEN 0
              ELSE CHOOSE i \in dots : \A j \in dots : j <= i
  IN SubSeq(plot_id, last + 1, Len(plot_id))

\* f"{category}.{plot_name}" for the plot_name shown for plot_id
Rebuild(category, plot_id) == MakeId(category, AfterLastDot(plot_id))

\* 'column' in param, 'columns' in param
HasColumn(param) ==
  param \in {"x_column", "y_column", "y_columns", "value_column",
             "value_columns", "group_column", "size_column", "color_column"}
HasColumns(param) == param \in {"y_columns", "value_columns"}

\* create_plot_tab: the keys of the params dict the widgets fill
CollectParams(info, plot_id) ==
  LET req == info.required_params
      collected == SelectSeq([i \in 1..Len(req) |-> req[i].name], HasColumn)
  IN IF plot_id = MakeId("statistical", <<"heatmap">>)
     THEN Append(collected, "correlation")
     ELSE collected

InKeys(keys, k) == \E i \in 1..Len(keys) : keys[i] = k

\* create_plot: the keys whose values the set_columns call passes, in
\* positional order; called = FALSE when no branch is taken
DispatchSetColumns(keys) ==
  IF InKeys(keys, "x_column") /\ InKeys(keys, "y_columns")
    THEN [called |-> TRUE, args |-> <<"x_column", "y_columns">>]
  ELSE IF InKeys(keys, "x_column") /\ InKeys(keys, "y_column")
    THEN [called |-> TRUE, args |-> <<"x_column", "y_column">>]
  ELSE IF InKeys(keys, "value_column")
    THEN [called |-> TRUE, args |-> <<"value_column">>]
  ELSE IF InKeys(keys, "value_columns")
    THEN [called |-> TRUE, args |-> <<"value_columns">>]
  ELSE [called |-> FALSE, args |-> <<>>]

(***************************************************************************)
(* The chart types: validate_data                                          *)
(***************************************************************************)
Exists(data, col) == col \in 1..Len(data.cols)

\* [col for col in columns if is_numeric_dtype(data[col])], from column `from`
RECURSIVE NumericFrom(_, _)
NumericFrom(data, from) ==
  IF from > Len(data.cols) THEN <<>>
  ELSE (IF data.cols[from] = "num" THEN <<from>> ELSE <<>>)
         \o NumericFrom(data, from + 1)

\* DataFrame.empty
Empty(data) == data.rows = 0 \/ Len(data.cols) = 0

Returned(v, p) == [raised |-> FALSE, error |-> None, value |-> v, p |-> p]
Raised(e, p) == [raised |-> TRUE, error |-> e, value |-> FALSE, p |-> p]

\* `self.data is None or self.data.empty`: None is caught by the first test,
\* any other value is asked for its .empty attribute
NoneOrEmpty(p) ==
  IF p.data.kind = "None" THEN Returned(TRUE, p)
  ELSE IF p.data.kind # "table" THEN Raised("AttributeError", p)
  ELSE Returned(Empty(p.data), p)

Bar_validate_data(p) ==
  LET e == NoneOrEmpty(p) IN
  IF e.raised THEN e
  ELSE IF e.value THEN Returned(FALSE, p)
  ELSE IF Len(p.data.cols) < 2 THEN Returned(FALSE, p)
  ELSE Returned(TRUE, p)

Line_validate_data(p) ==
  LET e == NoneOrEmpty(p) IN
  IF e.raised THEN e
  ELSE IF e.value THEN Returned(FALSE, p)
  ELSE IF Len(p.data.cols) < 2 THEN Returned(FALSE, p)
  ELSE Returned(TRUE, p)

Scatter_validate_data(p) ==
  LET e == NoneOrEmpty(p) IN
  IF e.raised THEN e
  ELSE IF e.value THEN Returned(FALSE, p)
  ELSE Returned(Len(NumericFrom(p.data, 1)) >= 2, p)

Histogram_validate_data(p) ==
  LET e == NoneOrEmpty(p) IN
  IF e.raised THEN e
  ELSE IF e.value THEN Returned(FALSE, p)
  ELSE Returned(Len(NumericFrom(p.data, 1)) >= 1, p)

Box_validate_data(p) ==
  LET e == NoneOrEmpty(p) IN
  IF e.raised THEN e
  ELSE IF e.value THEN Returned(FALSE, p)
  ELSE Returned(Len(NumericFrom(p.data, 1)) >= 1, p)

Heatmap_validate_data(p) ==
  LET e == NoneOrEmpty(p) IN
  IF e.raised THEN e
  ELSE IF e.value THEN Returned(FALSE, p)
  ELSE Returned(Len(p.data.cols) >= 2, p)

\* method resolution of self.validate_data()
validate_data(p) ==
  CASE p.cls = "BarPlotter" -> Bar_validate_data(p)
    [] p.cls = "LinePlotter" -> Line_validate_data(p)
    [] p.cls = "ScatterPlotter" -> Scatter_validate_data(p)
    [] p.cls = "HistogramPlotter" -> Histogram_validate_data(p)
    [] p.cls = "BoxPlotter" -> Box_validate_data(p)
    [] p.cls = "HeatmapPlotter" -> Heatmap_validate_data(p)

(***************************************************************************)
(* The chart types: set_columns and the parameter setters.  An argument    *)
(* that may be a list or a bare column name says which it is.              *)
(***************************************************************************)
ListArg(items) == [isList |-> TRUE, name |-> 0, items |-> items]
NameArg(col) == [isList |-> FALSE, name |-> col, items |-> <<>>]

\* v if isinstance(v, list) else [v]
AsList(v) == IF v.isList THEN v.items ELSE <<v.name>>

Bar_set_columns(p, x_column, y_columns) ==
  [p EXCEPT !.x_column = x_column, !.y_columns = AsList(y_columns)]

Line_set_columns(p, x_column, y_columns) ==
  [p EXCEPT !.x_column = x_column, !.y_columns = AsList(y_columns)]

Scatter_set_columns(p, x_column, y_column, size_column, color_column) ==
  [p EXCEPT !.x_column = x_column, !.y_column = y_column,
            !.size_column = size_column, !.color_column = color_column]

Histogram_set_columns(p, value_column, group_column) ==
  [p EXCEPT !.value_column = value_column, !.group_column = group_column]

Box_set_columns(p, value_columns, group_column) ==
  [p EXCEPT !.value_columns = AsList(value_columns),
            !.group_column = group_column]

\* stores a list as it is given
Heatmap_set_columns(p, value_columns) ==
  [p EXCEPT !.value_columns = value_columns.items]

set_bar_style(p, grouped, stacked) ==
  [p EXCEPT !.grouped = grouped, !.stacked = stacked]

set_heatmap_params(p, correlation) == [p EXCEPT !.correlation = correlation]

(***************************************************************************)
(* The chart types: create_plot.  f is the number of figures allocated so  *)
(* far; plt.subplots allocates figure f + 1.  lib is the generation of the *)
(* numeric libraries underneath: "old" ones answer where "new" ones raise. *)
(***************************************************************************)
\* a number that is a fraction
Ratio(num, den) == [num |-> num, den |-> den]

\* what one drawing call puts on the axes: the column it draws, its values,
\* the column it draws them against (none: 0),
\* the baseline it starts from (none: <<>>), its width and its offset from
\* the tick, the group it stands for (none: 0), its bin edges, and the
\* bounds of its color scale (None: the scale is ranged from the values)
Artist(column, values) ==
  [column |-> column, values |-> values, against |-> 0, bottom |-> <<>>,
   width |-> Ratio(0, 1), offset |-> Ratio(0, 1), group |-> 0,
   edges |-> <<>>, vmin |-> None, vmax |-> None]

Drawn(p, fig, series, layout) ==
  [raised |-> FALSE, error |-> None,
   p |-> [p EXCEPT !.figure = fig, !.axes = fig],
   figs |-> fig, fig |-> fig, series |-> series, layout |-> layout,
   reentries |-> 0, artists |-> <<>>]

Failed(e, p, figs) ==
  [raised |-> TRUE, error |-> e, p |-> p, figs |-> figs, fig |-> 0,
   series |-> <<>>, layout |-> None, reentries |-> 0, artists |-> <<>>]

AllExist(data, columns) == \A i \in 1..Len(columns) : Exists(data, columns[i])

\* what reading a column of a value that is no table raises
NoTableError(viaColumns) == IF viaColumns THEN "AttributeError" ELSE "TypeError"

AllNumeric(data, columns) ==
  \A i \in 1..Len(columns) : data.cols[columns[i]] = "num"

\* bottom += self.data[y_col], row by row
AddColumn(bottom, column) == [r \in 1..Len(bottom) |-> bottom[r] + column[r]]

\* the running total started from the first series' column itself
RECURSIVE Stack_aliased(_, _, _, _)
Stack_aliased(data, ys, i, st) ==
  IF i > Len(ys) THEN st
  ELSE IF i = 1
  THEN Stack_aliased(data, ys, 2,
                     [st EXCEPT !.bottoms = <<[r \in 1..data.rows |-> 0]>>,
                                !.bottom = data.cells[ys[1]]])
  ELSE LET total == AddColumn(st.bottom, data.cells[ys[i]]) IN
       Stack_aliased(data, ys, i + 1,
                     [st EXCEPT !.bottoms = Append(@, st.bottom),
                                !.bottom = total,
                                !.data.cells[ys[1]] = total])

\* the stacked branch: bottom is a new array of zeros; each series is drawn
\* from bottom and then added to it.  bottoms[i] is the baseline series i
\* was drawn from; data is the dataset after the loop
RECURSIVE Stack(_, _, _, _)
Stack(data, ys, i, st) ==
  IF i > Len(ys) THEN st
  ELSE Stack(data, ys, i + 1,
             [st EXCEPT !.bottoms = Append(@, st.bottom),
                        !.bottom = AddColumn(@, data.cells[ys[i]])])

NoStack(data) ==
  [bottoms |-> <<>>, bottom |-> [r \in 1..data.rows |-> 0], data |-> data]

\* self.bar_width = 0.8
BAR_WIDTH == Ratio(4, 5)

\* every series drawn from zero
StackedBars_flat(data, ys, st) ==
  [i \in 1..Len(ys) |->
     [Artist(ys[i], data.cells[ys[i]]) EXCEPT !.bottom = NoStack(data).bottom,
                                              !.width = BAR_WIDTH]]

\* ax.bar(x, self.data[y_col], self.bar_width, bottom=bottom, ...) for each
\* y-column in turn
StackedBars(data, ys, st) ==
  [i \in 1..Len(ys) |->
     [Artist(ys[i], data.cells[ys[i]]) EXCEPT !.bottom = st.bottoms[i],
                                              !.width = BAR_WIDTH]]

\* r / n and r * q
RatioDiv(r, n) == Ratio(r.num, r.den * n)
RatioMul(r, q) == Ratio(r.num * q.num, r.den * q.den)

\* the bars of a group laid out from the tick rightwards
GroupedBars_uncentered(data, ys) ==
  LET n_groups == Len(ys)
      width == RatioDiv(BAR_WIDTH, n_groups)
  IN [j \in 1..n_groups |->
        [Artist(ys[j], data.cells[ys[j]])
           EXCEPT !.width = width,
                  !.offset = RatioMul(width, Ratio(j - 1, 1))]]

\* width = self.bar_width / n_groups; for i, y_col in enumerate(y_columns):
\* offset = width * (i - n_groups/2 + 0.5); ax.bar(x + offset, ..., width)
GroupedBars(data, ys) ==
  LET n_groups == Len(ys)
      width == RatioDiv(BAR_WIDTH, n_groups)
  IN [j \in 1..n_groups |->
        [Artist(ys[j], data.cells[ys[j]])
           EXCEPT !.width = width,
                  !.offset = RatioMul(width,
                                      Ratio(2 * (j - 1) - n_groups + 1, 2))]]

\* ax.bar(x, self.data[self.y_columns[0]], self.bar_width, ...)
SimpleBar(data, ys) ==
  << [Artist(ys[1], data.cells[ys[1]]) EXCEPT !.width = BAR_WIDTH] >>

RECURSIVE Bar_create_plot(_, _)
Bar_create_plot(p, f) ==
  LET fig == f + 1
      d == p.data
      dflt == p.x_column = 0 \/ p.y_columns = <<>>
  IN
  IF d.kind # "table" THEN Failed(NoTableError(dflt), p, fig)
  ELSE IF dflt /\ Len(d.cols) = 0 THEN Failed("IndexError", p, fig)
  ELSE
    LET p1 == IF dflt
              THEN [p EXCEPT !.x_column = 1, !.y_columns = NumericFrom(d, 2)]
              ELSE p
        ys == p1.y_columns
    IN
    IF ~Exists(d, p1.x_column) THEN Failed("KeyError", p1, fig)
    ELSE IF p1.stacked THEN
      IF ~AllExist(d, ys) THEN Failed("KeyError", p1, fig)
      \* a column of strings cannot be added to the array of zeros
      ELSE IF ~AllNumeric(d, ys) THEN Failed("TypeError", p1, fig)
      ELSE LET st == Stack(d, ys, 1, NoStack(d)) IN
           [Drawn([p1 EXCEPT !.data = st.data], fig, ys, "stacked")
              EXCEPT !.artists = StackedBars(d, ys, st)]
    ELSE IF p1.grouped THEN
      IF Len(ys) = 0 THEN Failed("ZeroDivisionError", p1, fig)
      ELSE IF AllExist(d, ys)
        THEN [Drawn(p1, fig, ys, "grouped")
                EXCEPT !.artists = GroupedBars(d, ys)]
      ELSE Failed("KeyError", p1, fig)
    ELSE IF Len(ys) = 1 THEN
      IF AllExist(d, ys)
        THEN [Drawn(p1, fig, ys, "simple") EXCEPT !.artists = SimpleBar(d, ys)]
      ELSE Failed("KeyError", p1, fig)
    ELSE
      LET r == Bar_create_plot([p1 EXCEPT !.grouped = TRUE], fig)
      IN [r EXCEPT !.reentries = @ + 1]

\* for i, y_col in enumerate(self.y_columns):
\*   ax.plot(self.data[self.x_column], self.data[y_col], label=y_col, ...)
Lines(data, x_column, ys) ==
  [i \in 1..Len(ys) |->
     [Artist(ys[i], data.cells[ys[i]]) EXCEPT !.against = x_column]]

Line_create_plot(p, f, lib) ==
  LET fig == f + 1
      d == p.data
      dflt == p.x_column = 0 \/ p.y_columns = <<>>
  IN
  IF d.kind # "table" THEN Failed(NoTableError(dflt), p, fig)
  ELSE IF dflt /\ Len(d.cols) = 0 THEN Failed("IndexError", p, fig)
  ELSE
    LET p1 == IF dflt
              THEN [p EXCEPT !.x_column = 1, !.y_columns = NumericFrom(d, 2)]
              ELSE p
        ys == p1.y_columns
        \* `not self.colors` on None, on an empty array, on an array of rows
        ambiguous == p1.colors > 0 \/ (p1.colors = 0 /\ lib = "new")
        p2 == [p1 EXCEPT !.colors = Len(ys)]
    IN
    IF ambiguous THEN Failed("ValueError", p1, fig)
    ELSE IF ~Exists(d, p2.x_column) \/ ~AllExist(d, ys)
      THEN Failed("KeyError", p2, fig)
    ELSE [Drawn(p2, fig, ys, "lines")
            EXCEPT !.artists = Lines(d, p2.x_column, ys)]

Scatter_create_plot(p, f) ==
  LET fig == f + 1
      d == p.data
      dflt == p.x_column = 0 \/ p.y_column = 0
  IN
  IF d.kind # "table" THEN Failed(NoTableError(dflt), p, fig)
  ELSE
    LET numeric_cols == NumericFrom(d, 1)
        p1 == IF dflt /\ Len(numeric_cols) >= 2
              THEN [p EXCEPT !.x_column = numeric_cols[1],
                             !.y_column = numeric_cols[2]]
              ELSE p
    IN
    IF ~Exists(d, p1.x_column) \/ ~Exists(d, p1.y_column)
      THEN Failed("KeyError", p1, fig)
    ELSE Drawn(p1, fig, <<p1.y_column>>,
               IF Exists(d, p1.color_column) THEN "colored" ELSE "plain")

\* Series.unique(): the values in order of first appearance, a missing one
\* among them
RECURSIVE Unique(_)
Unique(column) ==
  IF column = <<>> THEN <<>>
  ELSE LET n == Len(column)
           before == Unique(SubSeq(column, 1, n - 1))
       IN IF \E i \in 1..(n - 1) : column[i] = column[n] THEN before
          ELSE Append(before, column[n])

\* data[data[column] == value]: the rows, in order; a missing value equals
\* nothing, itself included
RECURSIVE RowsWhere(_, _, _)
RowsWhere(column, value, n) ==
  IF n = 0 THEN <<>>
  ELSE RowsWhere(column, value, n - 1)
         \o (IF value # Missing /\ column[n] = value THEN <<n>> ELSE <<>>)

\* frame[column].dropna() over the given rows
ValuesAt(column, rows) ==
  SelectSeq([i \in 1..Len(rows) |-> column[rows[i]]],
            LAMBDA v : v # Missing)

\* self.bins = 30
BINS == 30

\* the bin edges ax.hist(values, bins=self.bins) computes: bins equal steps
\* from the least value to the greatest, from 0 to 1 when there are no
\* values and half a unit to either side when there is one value only;
\* lo2 and hi2 are twice the ends
Least(values) == CHOOSE v \in { values[i] : i \in 1..Len(values) } :
                   \A i \in 1..Len(values) : v <= values[i]
Greatest(values) == CHOOSE v \in { values[i] : i \in 1..Len(values) } :
                      \A i \in 1..Len(values) : v >= values[i]

BinEdges(values, bins) ==
  IF values = <<>> THEN [lo2 |-> 0, hi2 |-> 2, bins |-> bins]
  ELSE IF Least(values) = Greatest(values)
  THEN [lo2 |-> 2 * Least(values) - 1, hi2 |-> 2 * Greatest(values) + 1,
        bins |-> bins]
  ELSE [lo2 |-> 2 * Least(values), hi2 |-> 2 * Greatest(values),
        bins |-> bins]

\* groups = self.data[self.group_column].unique(); for each group:
\* group_data = self.data[self.data[group_column] == group][value_column]
\*                .dropna(); ax.hist(group_data, bins=self.bins, ...)
GroupLayers(data, value_column, group_column, bins) ==
  LET groups == Unique(data.cells[group_column])
  IN [i \in 1..Len(groups) |->
        LET group_data ==
              ValuesAt(data.cells[value_column],
                       RowsWhere(data.cells[group_column], groups[i],
                                 data.rows))
        IN [Artist(value_column, group_data)
              EXCEPT !.group = groups[i],
                     !.edges = BinEdges(group_data, bins)]]

\* data_to_plot = self.data[self.value_column].dropna();
\* ax.hist(data_to_plot, bins=self.bins, ...)
SingleLayer(data, value_column, bins) ==
  LET data_to_plot ==
        ValuesAt(data.cells[value_column], [r \in 1..data.rows |-> r])
  IN << [Artist(value_column, data_to_plot)
           EXCEPT !.edges = BinEdges(data_to_plot, bins)] >>

Histogram_create_plot(p, f) ==
  LET fig == f + 1
      d == p.data
      dflt == p.value_column = 0
  IN
  IF d.kind # "table" THEN Failed(NoTableError(dflt), p, fig)
  ELSE
    LET numeric_cols == NumericFrom(d, 1)
        p1 == IF dflt /\ Len(numeric_cols) >= 1
              THEN [p EXCEPT !.value_column = numeric_cols[1]]
              ELSE p
    IN
    IF ~Exists(d, p1.value_column) THEN Failed("KeyError", p1, fig)
    \* data_to_plot.mean() of a column of strings
    ELSE IF d.cols[p1.value_column] # "num" THEN Failed("TypeError", p1, fig)
    ELSE IF Exists(d, p1.group_column)
      THEN [Drawn(p1, fig, <<p1.value_column>>, "groups")
              EXCEPT !.artists = GroupLayers(d, p1.value_column,
                                             p1.group_column, BINS)]
    ELSE [Drawn(p1, fig, <<p1.value_column>>, "single")
            EXCEPT !.artists = SingleLayer(d, p1.value_column, BINS)]

\* numeric_cols[:min(5, len(numeric_cols))]
MaxBoxColumns == 5

Box_create_plot(p, f) ==
  LET fig == f + 1
      d == p.data
      dflt == p.value_columns = <<>>
  IN
  IF d.kind # "table" THEN Failed(NoTableError(dflt), p, fig)
  ELSE
    LET numeric_cols == NumericFrom(d, 1)
        n == IF Len(numeric_cols) < MaxBoxColumns THEN Len(numeric_cols)
             ELSE MaxBoxColumns
        p1 == IF dflt THEN [p EXCEPT !.value_columns = SubSeq(numeric_cols, 1, n)]
              ELSE p
    IN
    IF ~AllExist(d, p1.value_columns) THEN Failed("KeyError", p1, fig)
    ELSE Drawn(p1, fig, p1.value_columns,
               IF Exists(d, p1.group_column) THEN "groups" ELSE "single")

\* ax.imshow(matrix, ..., vmin=self.vmin, vmax=self.vmax)
Image(p) == << [Artist(0, <<>>) EXCEPT !.vmin = p.vmin, !.vmax = p.vmax] >>

Heatmap_create_plot(p, f, lib) ==
  LET fig == f + 1
      d == p.data
      given == p.value_columns # <<>>
  IN
  IF d.kind # "table" THEN Failed(NoTableError(~given), p, fig)
  ELSE IF given /\ ~AllExist(d, p.value_columns) THEN Failed("KeyError", p, fig)
  ELSE
    LET numeric_cols == NumericFrom(d, 1) IN
    IF p.correlation THEN
      LET used == IF given THEN p.value_columns ELSE numeric_cols
          p1 == [p EXCEPT !.vmin = "-1", !.vmax = "1"]
      IN
      \* DataFrame.corr() over a column that is not numeric
      IF ~AllNumeric(d, used) /\ lib = "new" THEN Failed("ValueError", p, fig)
      ELSE [Drawn(p1, fig, SelectSeq(used, LAMBDA c : d.cols[c] = "num"),
                  "correlation") EXCEPT !.artists = Image(p1)]
    ELSE
      LET matrix == IF given THEN p.value_columns
                    ELSE IF numeric_cols # <<>> THEN numeric_cols
                    ELSE [i \in 1..Len(d.cols) |-> i]
      IN
      \* imshow of values that are not numbers
      IF ~AllNumeric(d, matrix) THEN Failed("TypeError", p, fig)
      ELSE [Drawn(p, fig, matrix, "matrix") EXCEPT !.artists = Image(p)]

Libs == {"old", "new"}

\* method resolution of self.create_plot()
create_plot(p, f, lib) ==
  CASE p.cls = "BarPlotter" -> Bar_create_plot(p, f)
    [] p.cls = "LinePlotter" -> Line_create_plot(p, f, lib)
    [] p.cls = "ScatterPlotter" -> Scatter_create_plot(p, f)
    [] p.cls = "HistogramPlotter" -> Histogram_create_plot(p, f)
    [] p.cls = "BoxPlotter" -> Box_create_plot(p, f)
    [] p.cls = "HeatmapPlotter" -> Heatmap_create_plot(p, f, lib)

(***************************************************************************)
(* BasePlotter.plot : the template method                                  *)
(***************************************************************************)
PlotRaised(e, msg, calls, p, figs) ==
  [raised |-> TRUE, error |-> e, message |-> msg, calls |-> calls, p |-> p,
   figs |-> figs, result |-> 0, made |-> 0, series |-> <<>>, layout |-> None,
   reentries |-> 0, artists |-> <<>>]

plot_unchecked(p, f, lib) ==
  LET r == create_plot(p, f, lib)
      calls == <<"validate_data", "create_plot">>
  IN IF r.raised THEN PlotRaised(r.error, <<>>, calls, r.p, r.figs)
     ELSE [raised |-> FALSE, error |-> None, message |-> <<>>,
           calls |-> calls \o <<"apply_styling", "add_annotations">>,
           p |-> [r.p EXCEPT !.figure = r.fig, !.axes = r.fig],
           figs |-> r.figs, result |-> r.fig, made |-> r.fig,
           series |-> r.series, layout |-> r.layout, reentries |-> r.reentries,
           artists |-> r.artists]

plot_misordered(p, f, lib) ==
  LET r == plot_unchecked(p, f, lib) IN
  IF r.raised THEN r
  ELSE [r EXCEPT !.calls = <<"validate_data", "apply_styling", "create_plot",
                             "add_annotations">>]

plot(p, f, lib) ==
  LET v == validate_data(p)
      called == <<"validate_data">>
  IN
  IF v.raised THEN PlotRaised(v.error, <<>>, called, v.p, f)
  ELSE IF ~v.value
    THEN PlotRaised("ValueError", <<"Invalid data for", DisplayName(p.cls)>>,
                    called, v.p, f)
  ELSE
    LET r == create_plot(v.p, f, lib)
        created == Append(called, "create_plot")
    IN
    IF r.raised THEN PlotRaised(r.error, <<>>, created, r.p, r.figs)
    ELSE
      LET p1 == [r.p EXCEPT !.figure = r.fig, !.axes = r.fig]
          styled == Append(created, "apply_styling")
          annotated == Append(styled, "add_annotations")
      IN [raised |-> FALSE, error |-> None, message |-> <<>>,
          calls |-> annotated, p |-> p1, figs |-> r.figs,
          result |-> p1.figure, made |-> r.fig,
          series |-> r.series, layout |-> r.layout, reentries |-> r.reentries,
          artists |-> r.artists]

\* the methods each chart class defines itself
OwnMethods(cls) ==
  {"__init__", "validate_data", "set_columns", "create_plot",
   "get_required_params", "get_optional_params"}
    \cup (CASE cls = "BarPlotter" -> {"set_bar_style"}
            [] cls = "LinePlotter" -> {"set_styles"}
            [] cls = "ScatterPlotter" -> {"set_regression"}
            [] cls = "HistogramPlotter" -> {"set_histogram_params"}
            [] cls = "BoxPlotter" -> {"set_box_params"}
            [] cls = "HeatmapPlotter" -> {"set_heatmap_params"})

(***************************************************************************)
(* Operations on the plotter instance.                                     *)
(***************************************************************************)
NoPlotLast ==
  [op |-> "none", raised |-> FALSE, error |-> None, message |-> <<>>,
   calls |-> <<>>, result |-> 0, made |-> 0, series |-> <<>>, layout |-> None,
   reentries |-> 0, fresh |-> FALSE, valid |-> FALSE, value |-> FALSE,
   artists |-> <<>>]

XArgs == {1, 3}
YArgs == {ListArg(<<>>), ListArg(<<2>>), ListArg(<<2, 3>>), NameArg(2)}
OptArgs == {0, 1, 3}
ValueListArgs == {ListArg(<<>>), ListArg(<<1, 2>>), ListArg(<<3>>), NameArg(1)}

SetColumns ==
  /\ plotter.cls # None
  /\ \/ /\ plotter.cls = "BarPlotter"
        /\ \E x \in XArgs, y \in YArgs : plotter' = Bar_set_columns(plotter, x, y)
     \/ /\ plotter.cls = "LinePlotter"
        /\ \E x \in XArgs, y \in YArgs : plotter' = Line_set_columns(plotter, x, y)
     \/ /\ plotter.cls = "ScatterPlotter"
        /\ \E x \in XArgs, y \in {2, 3}, sz \in {0}, c \in OptArgs :
             plotter' = Scatter_set_columns(plotter, x, y, sz, c)
     \/ /\ plotter.cls = "HistogramPlotter"
        /\ \E v \in XArgs, g \in OptArgs :
             plotter' = Histogram_set_columns(plotter, v, g)
     \/ /\ plotter.cls = "BoxPlotter"
        /\ \E v \in ValueListArgs, g \in {0, 1} :
             plotter' = Box_set_columns(plotter, v, g)
     \/ /\ plotter.cls = "HeatmapPlotter"
        /\ \E v \in {a \in ValueListArgs : a.isList} :
             plotter' = Heatmap_set_columns(plotter, v)
  /\ plotLast' = [NoPlotLast EXCEPT !.op = "set_columns"]
  /\ UNCHANGED nextFig
  /\ UNCHANGED envVars
  /\ UNCHANGED appVars
  /\ UNCHANGED regVars

SetBarStyle ==
  /\ plotter.cls = "BarPlotter"
  /\ \E grouped \in BOOLEAN, stacked \in BOOLEAN :
       plotter' = set_bar_style(plotter, grouped, stacked)
  /\ plotLast' = [NoPlotLast EXCEPT !.op = "set_bar_style"]
  /\ UNCHANGED nextFig
  /\ UNCHANGED envVars
  /\ UNCHANGED appVars
  /\ UNCHANGED regVars

SetHeatmapParams ==
  /\ plotter.cls = "HeatmapPlotter"
  /\ \E correlation \in BOOLEAN :
       plotter' = set_heatmap_params(plotter, correlation)
  /\ plotLast' = [NoPlotLast EXCEPT !.op = "set_heatmap_params"]
  /\ UNCHANGED nextFig
  /\ UNCHANGED envVars
  /\ UNCHANGED appVars
  /\ UNCHANGED regVars

IsFresh(p) == p = NewPlotter(p.cls, p.data, p.config)

\* a direct call of plotter.validate_data()
ValidateData ==
  /\ plotter.cls # None
  /\ LET v == validate_data(plotter) IN
     /\ plotter' = v.p
     /\ plotLast' = [NoPlotLast EXCEPT !.op = "validate_data",
                                       !.raised = v.raised, !.error = v.error,
                                       !.value = v.value,
                                       !.calls = <<"validate_data">>]
  /\ UNCHANGED nextFig
  /\ UNCHANGED envVars
  /\ UNCHANGED appVars
  /\ UNCHANGED regVars

\* a call of plotter.plot(); create_plot allocates at most two figures
Plot ==
  /\ plotter.cls # None
  /\ nextFig + 2 <= MaxFigures
  /\ LET r == plot(plotter, nextFig, library)
         v == validate_data(plotter)
     IN
     /\ plotter' = r.p
     /\ nextFig' = r.figs
     /\ plotLast' = [op |-> "plot", raised |-> r.raised, error |-> r.error,
                     message |-> r.message, calls |-> r.calls,
                     result |-> r.result, made |-> r.made,
                     series |-> r.series, layout |-> r.layout,
                     reentries |-> r.reentries, fresh |-> IsFresh(plotter),
                     valid |-> ~v.raised /\ v.value, value |-> FALSE,
                     artists |-> r.artists]
  /\ UNCHANGED envVars
  /\ UNCHANGED appVars
  /\ UNCHANGED regVars

(***************************************************************************)
(* config/palettes.py.  A color is the three channels of its '#rrggbb'     *)
(* text and whether the text is written with capital hex digits.           *)
(***************************************************************************)
Hex(r, g, b, caps) == [r |-> r, g |-> g, b |-> b, caps |-> caps]

COLORBLIND_SAFE ==
  "default" :>
      << Hex(1, 115, 178, TRUE), Hex(222, 143, 5, TRUE),
         Hex(2, 158, 115, TRUE), Hex(204, 120, 188, TRUE),
         Hex(236, 225, 51, TRUE), Hex(86, 180, 233, TRUE),
         Hex(240, 228, 66, TRUE) >>
  @@
  "tol" :>
      << Hex(51, 34, 136, FALSE), Hex(17, 119, 51, FALSE),
         Hex(68, 170, 153, TRUE), Hex(136, 204, 238, TRUE),
         Hex(221, 204, 119, TRUE), Hex(204, 102, 119, TRUE),
         Hex(170, 68, 153, TRUE), Hex(136, 34, 85, FALSE) >>
  @@
  "okabe_ito" :>
      << Hex(230, 159, 0, TRUE), Hex(86, 180, 233, TRUE),
         Hex(0, 158, 115, TRUE), Hex(240, 228, 66, TRUE),
         Hex(0, 114, 178, TRUE), Hex(213, 94, 0, TRUE),
         Hex(204, 121, 167, TRUE) >>

JOURNAL_PALETTES ==
  "nature" :>
      << Hex(230, 75, 53, TRUE), Hex(77, 187, 213, TRUE),
         Hex(0, 160, 135, TRUE), Hex(60, 84, 136, TRUE),
         Hex(243, 155, 127, TRUE), Hex(132, 145, 180, TRUE),
         Hex(145, 209, 194, TRUE), Hex(220, 0, 0, TRUE) >>
  @@
  "science" :>
      << Hex(31, 119, 180, TRUE), Hex(255, 127, 14, TRUE),
         Hex(44, 160, 44, TRUE), Hex(214, 39, 40, TRUE),
         Hex(148, 103, 189, TRUE), Hex(140, 86, 75, TRUE),
         Hex(227, 119, 194, TRUE), Hex(127, 127, 127, TRUE) >>
  @@
  "ieee" :>
      << Hex(0, 0, 0, FALSE), Hex(0, 0, 255, TRUE),
         Hex(255, 0, 0, TRUE), Hex(0, 255, 0, TRUE),
         Hex(255, 0, 255, TRUE), Hex(0, 255, 255, TRUE),
         Hex(255, 255, 0, TRUE), Hex(128, 128, 128, FALSE) >>

CATEGORICAL ==
  "set1" :>
      << Hex(228, 26, 28, TRUE), Hex(55, 126, 184, TRUE),
         Hex(77, 175, 74, TRUE), Hex(152, 78, 163, TRUE),
         Hex(255, 127, 0, TRUE), Hex(255, 255, 51, TRUE),
         Hex(166, 86, 40, TRUE), Hex(247, 129, 191, TRUE) >>
  @@
  "set2" :>
      << Hex(102, 194, 165, TRUE), Hex(252, 141, 98, TRUE),
         Hex(141, 160, 203, TRUE), Hex(231, 138, 195, TRUE),
         Hex(166, 216, 84, TRUE), Hex(255, 217, 47, TRUE),
         Hex(229, 196, 148, TRUE), Hex(179, 179, 179, TRUE) >>
  @@
  "set3" :>
      << Hex(141, 211, 199, TRUE), Hex(255, 255, 179, TRUE),
         Hex(190, 186, 218, TRUE), Hex(251, 128, 114, TRUE),
         Hex(128, 177, 211, TRUE), Hex(253, 180, 98, TRUE),
         Hex(179, 222, 105, TRUE), Hex(252, 205, 229, TRUE) >>

SEQUENTIAL ==
  "blues" :>
      << Hex(247, 251, 255, FALSE), Hex(222, 235, 247, FALSE),
         Hex(198, 219, 239, FALSE), Hex(158, 202, 225, FALSE),
         Hex(107, 174, 214, FALSE), Hex(66, 146, 198, FALSE),
         Hex(33, 113, 181, FALSE), Hex(8, 81, 156, FALSE) >>
  @@
  "greens" :>
      << Hex(247, 252, 245, FALSE), Hex(229, 245, 224, FALSE),
         Hex(199, 233, 192, FALSE), Hex(161, 217, 155, FALSE),
         Hex(116, 196, 118, FALSE), Hex(65, 171, 93, FALSE),
         Hex(35, 139, 69, FALSE), Hex(0, 109, 44, FALSE) >>
  @@
  "reds" :>
      << Hex(255, 245, 240, FALSE), Hex(254, 224, 210, FALSE),
         Hex(252, 187, 161, FALSE), Hex(252, 146, 114, FALSE),
         Hex(251, 106, 74, FALSE), Hex(239, 59, 44, FALSE),
         Hex(203, 24, 29, FALSE), Hex(165, 15, 21, FALSE) >>

DIVERGING ==
  "rdbu" :>
      << Hex(103, 0, 31, FALSE), Hex(178, 24, 43, FALSE),
         Hex(214, 96, 77, FALSE), Hex(244, 165, 130, FALSE),
         Hex(253, 219, 199, FALSE), Hex(209, 229, 240, FALSE),
         Hex(146, 197, 222, FALSE), Hex(67, 147, 195, FALSE),
         Hex(33, 102, 172, FALSE), Hex(5, 48, 97, FALSE) >>
  @@
  "rdylgn" :>
      << Hex(165, 0, 38, FALSE), Hex(215, 48, 39, FALSE),
         Hex(244, 109, 67, FALSE), Hex(253, 174, 97, FALSE),
         Hex(254, 224, 139, FALSE), Hex(217, 239, 139, FALSE),
         Hex(166, 217, 106, FALSE), Hex(102, 189, 99, FALSE),
         Hex(26, 152, 80, FALSE), Hex(0, 104, 55, FALSE) >>

HEATMAP_PALETTES ==
  "diverging_rb" :>
      << Hex(5, 48, 97, FALSE), Hex(33, 102, 172, FALSE),
         Hex(67, 147, 195, FALSE), Hex(146, 197, 222, FALSE),
         Hex(209, 229, 240, FALSE), Hex(247, 247, 247, FALSE),
         Hex(253, 219, 199, FALSE), Hex(244, 165, 130, FALSE),
         Hex(214, 96, 77, FALSE), Hex(178, 24, 43, FALSE),
         Hex(103, 0, 31, FALSE) >>
  @@
  "diverging_bg" :>
      << Hex(118, 42, 131, FALSE), Hex(153, 112, 171, FALSE),
         Hex(194, 165, 207, FALSE), Hex(231, 212, 232, FALSE),
         Hex(247, 247, 247, FALSE), Hex(217, 240, 211, FALSE),
         Hex(166, 219, 160, FALSE), Hex(90, 174, 97, FALSE),
         Hex(27, 120, 55, FALSE) >>
  @@
  "sequential_heat" :>
      << Hex(255, 255, 204, FALSE), Hex(255, 237, 160, FALSE),
         Hex(254, 217, 118, FALSE), Hex(254, 178, 76, FALSE),
         Hex(253, 141, 60, FALSE), Hex(252, 78, 42, FALSE),
         Hex(227, 26, 28, FALSE), Hex(189, 0, 38, FALSE),
         Hex(128, 0, 38, FALSE) >>
  @@
  "sequential_cool" :>
      << Hex(247, 252, 240, FALSE), Hex(224, 243, 219, FALSE),
         Hex(204, 235, 197, FALSE), Hex(168, 221, 181, FALSE),
         Hex(123, 204, 196, FALSE), Hex(78, 179, 211, FALSE),
         Hex(43, 140, 190, FALSE), Hex(8, 104, 172, FALSE),
         Hex(8, 64, 129, FALSE) >>
  @@
  "viridis" :>
      << Hex(68, 1, 84, FALSE), Hex(72, 40, 120, FALSE),
         Hex(62, 73, 137, FALSE), Hex(49, 104, 142, FALSE),
         Hex(38, 130, 142, FALSE), Hex(31, 158, 137, FALSE),
         Hex(53, 183, 121, FALSE), Hex(110, 206, 88, FALSE),
         Hex(181, 222, 43, FALSE), Hex(253, 231, 37, FALSE) >>
  @@
  "plasma" :>
      << Hex(13, 8, 135, FALSE), Hex(70, 3, 159, FALSE),
         Hex(114, 1, 168, FALSE), Hex(156, 23, 158, FALSE),
         Hex(189, 55, 134, FALSE), Hex(216, 87, 107, FALSE),
         Hex(237, 121, 83, FALSE), Hex(251, 159, 58, FALSE),
         Hex(253, 202, 38, FALSE), Hex(240, 249, 33, FALSE) >>
  @@
  "temperature" :>
      << Hex(49, 54, 149, FALSE), Hex(69, 117, 180, FALSE),
         Hex(116, 173, 209, FALSE), Hex(171, 217, 233, FALSE),
         Hex(224, 243, 248, FALSE), Hex(254, 224, 144, FALSE),
         Hex(253, 174, 97, FALSE), Hex(244, 109, 67, FALSE),
         Hex(215, 48, 39, FALSE), Hex(165, 0, 38, FALSE) >>
  @@
  "earth" :>
      << Hex(26, 54, 32, FALSE), Hex(45, 80, 22, FALSE),
         Hex(74, 124, 30, FALSE), Hex(115, 175, 72, FALSE),
         Hex(162, 212, 137, FALSE), Hex(200, 228, 181, FALSE),
         Hex(231, 245, 222, FALSE), Hex(250, 240, 212, FALSE),
         Hex(232, 197, 139, FALSE), Hex(209, 156, 76, FALSE),
         Hex(165, 115, 40, FALSE) >>

\* {**COLORBLIND_SAFE, ..., **HEATMAP_PALETTES}: a later dict wins
all_palettes ==
  HEATMAP_PALETTES @@ DIVERGING @@ SEQUENTIAL @@ CATEGORICAL
    @@ JOURNAL_PALETTES @@ COLORBLIND_SAFE

\* LinearSegmentedColormap.from_list(name, colors): N lookup entries
LutSize == 256

\* entry i (from 0) of the lookup table, one channel: the anchors a[1..m]
\* sit at evenly spaced positions and the entry at position i / (N - 1) is
\* interpolated linearly between its neighbours; to_hex rounds the channel
\* to a whole number of 255ths
LutChannel(a, i) ==
  LET m == Len(a)
      t == i * (m - 1)
      j == t \div (LutSize - 1)
  IN IF j >= m - 1 THEN a[m]
     ELSE LET numer == a[j + 1] * (LutSize - 1)
                         + (a[j + 2] - a[j + 1]) * (t - (LutSize - 1) * j)
          IN (2 * numer + (LutSize - 1)) \div (2 * (LutSize - 1))

\* cmap(x) for x = k / (n - 1), the k-th of np.linspace(0, 1, n): the entry
\* at int(x * N), the last entry for x = 1
LutIndex(k, n) ==
  IF n = 1 THEN 0
  ELSE LET i == (LutSize * k) \div (n - 1)
       IN IF i > LutSize - 1 THEN LutSize - 1 ELSE i

\* [mcolors.to_hex(cmap(i)) for i in np.linspace(0, 1, n_colors)]
Sample(palette, n) ==
  [k \in 1..n |->
     LET i == LutIndex(k - 1, n) IN
     Hex(LutChannel([c \in 1..Len(palette) |-> palette[c].r], i),
         LutChannel([c \in 1..Len(palette) |-> palette[c].g], i),
         LutChannel([c \in 1..Len(palette) |-> palette[c].b], i),
         FALSE)]

\* the n_colors argument: given = FALSE is the default None
NoCount == [given |-> FALSE, n |-> 0]
Count(n) == [given |-> TRUE, n |-> n]

PaletteResult(raised, error, value, S) ==
  [raised |-> raised, error |-> error, value |-> value, stored |-> S]

\* without the test `n_colors != len(palette)`
get_palette_resampled(S, cc, name, n_colors) ==
  IF name = "custom"
  THEN PaletteResult(FALSE, None, IF cc.set THEN cc.colors ELSE S["default"], S)
  ELSE IF name \in DOMAIN S
  THEN LET palette == S[name] IN
       IF n_colors.given /\ n_colors.n # 0
       THEN IF n_colors.n < 0 THEN PaletteResult(TRUE, "ValueError", <<>>, S)
            ELSE PaletteResult(FALSE, None, Sample(palette, n_colors.n), S)
       ELSE PaletteResult(FALSE, None, palette, S)
  ELSE PaletteResult(FALSE, None, S["default"], S)

\* S: the stored palettes; cc: the session's custom colors.  `if n_colors`
\* is false for None and for 0; np.linspace raises for a negative count
get_palette(S, cc, name, n_colors) ==
  IF name = "custom"
  THEN PaletteResult(FALSE, None, IF cc.set THEN cc.colors ELSE S["default"], S)
  ELSE IF name \in DOMAIN S
  THEN LET palette == S[name] IN
       IF n_colors.given /\ n_colors.n # 0 /\ n_colors.n # Len(palette)
       THEN IF n_colors.n < 0 THEN PaletteResult(TRUE, "ValueError", <<>>, S)
            ELSE PaletteResult(FALSE, None, Sample(palette, n_colors.n), S)
       ELSE PaletteResult(FALSE, None, palette, S)
  ELSE PaletteResult(FALSE, None, S["default"], S)

\* the names callers pass: every stored palette, 'custom', an unknown one
PaletteNames == DOMAIN all_palettes \cup {"custom", "nosuchpalette"}

\* palettes.get_palette(palette_name, 7) of the customize tab
PreviewCount == 7

\* the counts callers pass with a name: none, a negative one, 0..MaxCount,
\* the preview's, and the palette's own size
Counts(name) ==
  {NoCount, Count(-1), Count(PreviewCount)}
    \cup { Count(n) : n \in 0..MaxCount }
    \cup (IF name \in DOMAIN all_palettes
          THEN {Count(Len(all_palettes[name]))} ELSE {})

NoCustomColors == [set |-> FALSE, colors |-> <<>>]

NoPalLast ==
  [op |-> "none", name |-> None, n_colors |-> NoCount, raised |-> FALSE,
   error |-> None, value |-> <<>>, calls |-> 0]

\* the colors the customize tab starts the five pickers with
CustomDefaults ==
  << Hex(31, 119, 180, FALSE), Hex(255, 127, 14, FALSE),
     Hex(44, 160, 44, FALSE), Hex(214, 39, 40, FALSE),
     Hex(148, 103, 189, FALSE) >>

\* what the user may pick in the first picker
Picks == {CustomDefaults[1], Hex(0, 0, 0, FALSE)}

\* customize_plot_tab with palette type "Custom": the session's colors are
\* set to the defaults if absent, then to what the five pickers hold
PickCustomColors ==
  /\ \E first \in Picks :
       LET shown == IF custom_colors.set THEN custom_colors.colors
                    ELSE CustomDefaults
       IN custom_colors' = [set |-> TRUE,
                            colors |-> [shown EXCEPT ![1] = first]]
  /\ UNCHANGED << stored, palLast >>
  /\ UNCHANGED << expVars, sessVars >>
  /\ UNCHANGED envVars
  /\ UNCHANGED regVars
  /\ UNCHANGED plotVars

\* a call of palettes.get_palette(name, n_colors)
GetPalette ==
  /\ palLast.calls < MaxPaletteCalls
  /\ \E name \in PaletteNames :
       \E n_colors \in Counts(name) :
         LET r == get_palette(stored, custom_colors, name, n_colors) IN
         /\ stored' = r.stored
         /\ palLast' = [op |-> "get_palette", name |-> name,
                        n_colors |-> n_colors, raised |-> r.raised,
                        error |-> r.error, value |-> r.value,
                        calls |-> palLast.calls + 1]
  /\ UNCHANGED custom_colors
  /\ UNCHANGED << expVars, sessVars >>
  /\ UNCHANGED envVars
  /\ UNCHANGED regVars
  /\ UNCHANGED plotVars

(***************************************************************************)
(* core/exporters.py : PlotExporter.export.  A path is its root, its       *)
(* directories, the file's stem and its extension.                         *)
(***************************************************************************)
\* settings.EXPORTS_DIR = BASE_DIR / "exports"
EXPORTS_DIR == [root |-> "BASE_DIR", dir |-> <<"exports">>]

\* a filename as the caller types it: a stem, with directories before it or
\* not, absolute or not
Filename(absolute, dir, stem) == [absolute |-> absolute, dir |-> dir, stem |-> stem]

\* export_dir / f"{filename}.{format}": an absolute right operand replaces
\* the left one
PathJoin(export_dir, filename, format) ==
  IF filename.absolute
  THEN [root |-> "/", dir |-> filename.dir, stem |-> filename.stem,
        ext |-> format]
  ELSE [root |-> export_dir.root, dir |-> export_dir.dir \o filename.dir,
        stem |-> filename.stem, ext |-> format]

NoPath == [root |-> None, dir |-> <<>>, stem |-> None, ext |-> None]

\* the formats the figure's savefig writes: the four the application offers
\* and the further ones of the plotting library
Savable == {"png", "pdf", "svg", "eps", "jpg"}

\* the directory of a path exists / can be written
DirExists(path, present) ==
  \/ path.root = "BASE_DIR" /\ path.dir = EXPORTS_DIR.dir /\ present
  \/ path.root = "/" /\ path.dir = <<"tmp">>

DirWritable(path, w) == path.root = "/" \/ w

ExportResult(raised, error, path, F, present) ==
  [raised |-> raised, error |-> error, path |-> path, files |-> F,
   present |-> present]

\* with the error of savefig swallowed
export_swallowed(figure, filename, format, F, present, w) ==
  LET file_path == PathJoin(EXPORTS_DIR, filename, format) IN
  IF ~present /\ ~w
  THEN ExportResult(TRUE, "PermissionError", NoPath, F, present)
  ELSE IF figure = 0
  THEN ExportResult(TRUE, "AttributeError", NoPath, F, TRUE)
  ELSE IF format \in Savable /\ DirExists(file_path, TRUE)
            /\ DirWritable(file_path, w)
  THEN ExportResult(FALSE, None, file_path, F \cup {file_path}, TRUE)
  ELSE ExportResult(FALSE, None, file_path, F, TRUE)

\* figure is the figure's number, 0 for None; F the files there are;
\* present and w the state of the exports directory
export(figure, filename, format, F, present, w) ==
  LET file_path == PathJoin(EXPORTS_DIR, filename, format) IN
  \* export_dir.mkdir(exist_ok=True)
  IF ~present /\ ~w
  THEN ExportResult(TRUE, "PermissionError", NoPath, F, present)
  \* figure.savefig(file_path, format=format, ...)
  ELSE IF figure = 0
  THEN ExportResult(TRUE, "AttributeError", NoPath, F, TRUE)
  ELSE IF format \notin Savable
  THEN ExportResult(TRUE, "ValueError", NoPath, F, TRUE)
  ELSE IF ~DirExists(file_path, TRUE)
  THEN ExportResult(TRUE, "FileNotFoundError", NoPath, F, TRUE)
  ELSE IF ~DirWritable(file_path, w)
  THEN ExportResult(TRUE, "PermissionError", NoPath, F, TRUE)
  ELSE ExportResult(FALSE, None, file_path, F \cup {file_path}, TRUE)

\* what callers pass
Filenames ==
  { Filename(FALSE, <<>>, "plot"), Filename(FALSE, <<>>, "figure 1"),
    Filename(FALSE, <<"drafts">>, "plot"), Filename(TRUE, <<"tmp">>, "plot") }

Formats == {"png", "pdf", "svg", "eps", "jpg", "bmp"}

NoExpLast ==
  [op |-> "none", figure |-> 0, filename |-> Filename(FALSE, <<>>, None),
   format |-> None, raised |-> FALSE, error |-> None, path |-> NoPath,
   calls |-> 0]

\* a call of PlotExporter.export(figure, filename, format)
Export ==
  /\ expLast.calls < MaxExports
  /\ \E figure \in {0, 1}, filename \in Filenames, format \in Formats :
       LET r == export(figure, filename, format, files, exportsPresent,
                       writable)
       IN /\ files' = r.files
          /\ exportsPresent' = r.present
          /\ expLast' = [op |-> "export", figure |-> figure,
                         filename |-> filename, format |-> format,
                         raised |-> r.raised, error |-> r.error,
                         path |-> r.path, calls |-> expLast.calls + 1]
  /\ UNCHANGED writable
  /\ UNCHANGED << palVars, sessVars >>
  /\ UNCHANGED envVars
  /\ UNCHANGED regVars
  /\ UNCHANGED plotVars

\* somebody removes the exports directory and what is in it
RemoveExportsDir ==
  /\ exportsPresent
  /\ writable
  /\ exportsPresent' = FALSE
  /\ files' = { f \in files : f.root # EXPORTS_DIR.root }
  /\ UNCHANGED << writable, expLast >>
  /\ UNCHANGED << palVars, sessVars >>
  /\ UNCHANGED envVars
  /\ UNCHANGED regVars
  /\ UNCHANGED plotVars

\* the permissions of the application's directories change
SetWritable ==
  /\ writable' = ~writable
  /\ UNCHANGED << exportsPresent, files, expLast >>
  /\ UNCHANGED << palVars, sessVars >>
  /\ UNCHANGED envVars
  /\ UNCHANGED regVars
  /\ UNCHANGED plotVars

(***************************************************************************)
(* The application session (app.py): the data loaded, and create_plot,     *)
(* which the "Create Plot" button calls with the id chosen and the params  *)
(* the widgets collected.                                                  *)
(***************************************************************************)
NoSessLast == [op |-> "none", id |-> <<>>, outcome |-> None, error |-> None]

SessionStart ==
  /\ session_data = NoData
  /\ current_plot = 0
  /\ plotter_instance = NoPlotter
  /\ sessLast = NoSessLast

\* st.session_state.plot_config
SessionConfig == "session_config"

\* the tables a session loads: one with rows, one without
SessionDatasets == { Table(2, <<"str", "num", "num">>),
                     Table(0, <<"str", "num", "num">>) }

\* the params dict handed to create_plot: its keys in insertion order and
\* the value under each
NoParams ==
  [keys |-> <<>>, x_column |-> 0, y_columns |-> ListArg(<<>>), y_column |-> 0,
   value_column |-> 0, value_columns |-> ListArg(<<>>), correlation |-> FALSE]

RequestParams ==
  { [NoParams EXCEPT !.keys = <<"x_column", "y_columns">>, !.x_column = 1,
                     !.y_columns = ys] :
      ys \in {ListArg(<<>>), ListArg(<<2>>), ListArg(<<2, 3>>)} }
    \cup { [NoParams EXCEPT !.keys = <<"x_column", "y_column">>,
                            !.x_column = 2, !.y_column = 3] }
    \cup { [NoParams EXCEPT !.keys = <<"value_column">>, !.value_column = v] :
             v \in {1, 2} }
    \cup { [NoParams EXCEPT !.keys = <<"value_columns">>,
                            !.value_columns = ListArg(<<2, 3>>)] }
    \cup { [NoParams EXCEPT !.keys = <<"value_columns", "correlation">>,
                            !.value_columns = ListArg(<<2, 3>>),
                            !.correlation = c] : c \in BOOLEAN }
    \cup { NoParams }

\* the set_columns call binds: enough positional arguments for the
\* parameters without a default, and no more than there are parameters
ArityFits(cls, args) ==
  LET sig == SetColumnsSignature(cls) IN
  /\ Cardinality({ j \in 1..Len(sig) : ~sig[j].hasDefault }) <= Len(args)
  /\ Len(args) <= Len(sig)

\* each value goes to the parameter of its own name
NamesFit(cls, args) ==
  LET sig == SetColumnsSignature(cls) IN
  \A i \in 1..Len(args) : i <= Len(sig) => sig[i].name = args[i]

\* plotter.set_columns(...) as create_plot calls it, the values passed by
\* position
session_set_columns(p, params) ==
  CASE p.cls = "BarPlotter" ->
         Bar_set_columns(p, params.x_column, params.y_columns)
    [] p.cls = "LinePlotter" ->
         Line_set_columns(p, params.x_column, params.y_columns)
    [] p.cls = "ScatterPlotter" ->
         Scatter_set_columns(p, params.x_column, params.y_column, 0, 0)
    [] p.cls = "HistogramPlotter" ->
         Histogram_set_columns(p, params.value_column, 0)
    [] p.cls = "BoxPlotter" ->
         Box_set_columns(p, params.value_columns, 0)
    [] p.cls = "HeatmapPlotter" ->
         Heatmap_set_columns(p, params.value_columns)

SessionResult(fig, p, figs, outcome, error) ==
  [current_plot |-> fig, plotter_instance |-> p, figs |-> figs,
   outcome |-> outcome, error |-> error]

\* the columns are set by the branch the keys select, if any; for the
\* heatmap id the value_columns branch also passes the correlation flag on
configure(made, plot_id, params) ==
  IF ~DispatchSetColumns(params.keys).called THEN made
  ELSE IF /\ DispatchSetColumns(params.keys).args = <<"value_columns">>
          /\ plot_id = MakeId("statistical", <<"heatmap">>)
          /\ InKeys(params.keys, "correlation")
    THEN set_heatmap_params(session_set_columns(made, params),
                            params.correlation)
  ELSE session_set_columns(made, params)

\* r is what plotter.plot() did: the figure is stored only when it returned
after_plot(fig, r) ==
  IF r.raised THEN SessionResult(fig, r.p, r.figs, "plot", r.error)
  ELSE SessionResult(r.result, r.p, r.figs, "created", None)

\* made is what the registry handed out.  It is stored as soon as it is
\* there; set_columns and plot() then work on that same object; any
\* exception is caught and reported
with_plotter(fig, stored_plotter, made, plot_id, params, f, lib) ==
  IF made = NoPlotter
    THEN SessionResult(fig, stored_plotter, f, "unknown", None)
  ELSE IF /\ DispatchSetColumns(params.keys).called
          /\ ~ArityFits(made.cls, DispatchSetColumns(params.keys).args)
    THEN SessionResult(fig, made, f, "set_columns", "TypeError")
  ELSE after_plot(fig, plot(configure(made, plot_id, params), f, lib))

\* app.create_plot(plot_id, params): what the session holds afterwards
app_create_plot(fig, stored_plotter, data, P, plot_id, params, f, lib) ==
  with_plotter(fig, stored_plotter,
               Registry_create_plot(P, plot_id, data, SessionConfig),
               plot_id, params, f, lib)

\* the session takes the outcome r of the request for plot_id
StoreRequest(plot_id, r) ==
  /\ current_plot' = r.current_plot
  /\ plotter_instance' = r.plotter_instance
  /\ nextFig' = r.figs
  /\ sessLast' = [op |-> "create_plot", id |-> plot_id,
                  outcome |-> r.outcome, error |-> r.error]

\* the ids a request names: the bound ones and one nobody binds
RequestIds(P) == DOMAIN P \cup { MakeId("statistical", <<"nosuchplot">>) }

\* the sidebar loads a table
LoadData ==
  /\ \E data \in SessionDatasets :
       /\ data # session_data
       /\ session_data' = data
  /\ sessLast' = [NoSessLast EXCEPT !.op = "load_data"]
  /\ UNCHANGED << current_plot, plotter_instance >>
  /\ UNCHANGED << palVars, expVars >>
  /\ UNCHANGED envVars
  /\ UNCHANGED regVars
  /\ UNCHANGED plotVars

\* a create_plot request; the tabs are there once data is loaded, and the
\* plotters package was imported when app.py was
SessionCreatePlot ==
  /\ pkgLoaded
  /\ session_data # NoData
  /\ nextFig + 2 <= MaxFigures
  /\ \E plot_id \in RequestIds(plots), params \in RequestParams :
       /\ LET call == DispatchSetColumns(params.keys) IN
          plot_id \in DOMAIN plots /\ ArityFits(plots[plot_id], call.args)
            => NamesFit(plots[plot_id], call.args)
       /\ StoreRequest(plot_id,
                       app_create_plot(current_plot, plotter_instance,
                                       session_data, plots, plot_id, params,
                                       nextFig, library))
  /\ UNCHANGED session_data
  /\ UNCHANGED << plotter, plotLast >>
  /\ UNCHANGED << palVars, expVars >>
  /\ UNCHANGED envVars
  /\ UNCHANGED regVars

\* settings.py made the exports directory when it was imported
ExportStart ==
  /\ exportsPresent = TRUE
  /\ files = {}
  /\ expLast = NoExpLast

PaletteStart ==
  /\ stored = all_palettes
  /\ custom_colors = NoCustomColors
  /\ palLast = NoPalLast

AppStart ==
  /\ PaletteStart
  /\ writable = TRUE
  /\ ExportStart
  /\ SessionStart

(***************************************************************************)
(* Specifications.                                                         *)
(***************************************************************************)
Outcomes == {"ok", "ImportError", "Error"}

\* every chart module loads, or one of these fails to
MayFail == {"bar", "heatmap"}

Environments ==
  { f \in [Modules -> Outcomes] :
      /\ Cardinality({m \in Modules : f[m] # "ok"}) <= 1
      /\ \A m \in Modules \ MayFail : f[m] = "ok" }

RegistryStart ==
  /\ instance = 0
  /\ objects = 0
  /\ initialized = FALSE
  /\ plots = EmptyMap
  /\ categories = <<>>
  /\ classCategory = [c \in Classes |-> DeclaredCategory(c)]
  /\ initDiscoveries = 0
  /\ registers = 0
  /\ pkgImports = 0
  /\ pkgLoaded = FALSE
  /\ regLast = NoLast

\* the process before anything imports the registry
Init ==
  /\ loadOutcome \in Environments
  /\ dirOrder \in {"forward", "reverse"}
  /\ library = "new"
  /\ RegistryStart
  /\ plotter = NoPlotter
  /\ nextFig = 0
  /\ plotLast = NoPlotLast
  /\ AppStart

Next ==
  \/ Construct
  \/ Discover
  \/ Register
  \/ ImportPlotters
  \/ CreatePlot
  \/ GetPlotInfo
  \/ GetPlotsInCategory

Spec == Init /\ [][Next]_vars

Kinds == {"num", "str"}
ColumnLayouts == UNION { [1..n -> Kinds] : n \in 0..MaxCols }
Datasets ==
  {NoData, NotATable} \cup { Table(r, c) : r \in {0, 2}, c \in ColumnLayouts }
    \cup { RepeatedTable(2, c) : c \in ColumnLayouts }
    \cup { MissingTable(2, c) : c \in ColumnLayouts }

\* the chart types whose create_plot depends on the library generation
LibraryDependent == {"LinePlotter", "HeatmapPlotter"}

\* a plotter as PlotRegistry.create_plot hands it out, over any dataset
PlotterInit ==
  /\ loadOutcome = [m \in Modules |-> "ok"]
  /\ dirOrder = "forward"
  /\ RegistryStart
  /\ \E cls \in Classes, data \in Datasets :
       /\ plotter = NewPlotter(cls, data, None)
       /\ library \in IF cls \in LibraryDependent THEN Libs ELSE {"new"}
  /\ nextFig = 0
  /\ plotLast = NoPlotLast
  /\ AppStart

PlotterNext ==
  \/ SetColumns
  \/ SetBarStyle
  \/ SetHeatmapParams
  \/ ValidateData
  \/ Plot

PlotterSpec == PlotterInit /\ [][PlotterNext]_vars

\* the palette module in a session that has not yet touched the registry
PaletteInit ==
  /\ loadOutcome = [m \in Modules |-> "ok"]
  /\ dirOrder = "forward"
  /\ library = "new"
  /\ RegistryStart
  /\ plotter = NoPlotter
  /\ nextFig = 0
  /\ plotLast = NoPlotLast
  /\ AppStart

PaletteNext ==
  \/ GetPalette
  \/ PickCustomColors

PaletteSpec == PaletteInit /\ [][PaletteNext]_vars

\* the exporter, over directories that come and go
ExportInit ==
  /\ loadOutcome = [m \in Modules |-> "ok"]
  /\ dirOrder = "forward"
  /\ library = "new"
  /\ RegistryStart
  /\ plotter = NoPlotter
  /\ nextFig = 0
  /\ plotLast = NoPlotLast
  /\ AppStart

ExportNext ==
  \/ Export
  \/ RemoveExportsDir
  \/ SetWritable

ExportSpec == ExportInit /\ [][ExportNext]_vars

\* the application from its first line: it imports the plotters package,
\* then serves the session
SessionInit ==
  /\ loadOutcome = [m \in Modules |-> "ok"]
  /\ dirOrder = "forward"
  /\ library = "new"
  /\ RegistryStart
  /\ plotter = NoPlotter
  /\ nextFig = 0
  /\ plotLast = NoPlotLast
  /\ AppStart

SessionNext ==
  \/ ImportPlotters
  \/ LoadData
  \/ SessionCreatePlot

SessionSpec == SessionInit /\ [][SessionNext]_vars

(***************************************************************************)
(* Properties of the registry (checked under Spec).                        *)
(***************************************************************************)
NoDuplicates(seq) == \A i, j \in 1..Len(seq) : seq[i] = seq[j] => i = j

InCategory(C, category, plot_id) ==
  CatHas(C, category) /\ InKeys(CatGet(C, category), plot_id)

\* C1: create_plot on an id that is not bound returns None, does not raise
\* and leaves the id map and the category index as they were; on a bound id
\* it returns an instance of exactly the type bound to the id, holding the
\* data and the config it was given (a config of None becomes PlotConfig()).
C1_CreatePlotLookup ==
  [][regLast'.op = "create_plot" =>
       /\ plots' = plots
       /\ categories' = categories
       /\ ~regLast'.raised
       /\ regLast'.id \notin DOMAIN plots =>
            regLast'.result = None /\ regLast'.plotter = NoPlotter
       /\ regLast'.id \in DOMAIN plots =>
            /\ regLast'.result = "plotter"
            /\ regLast'.plotter.cls = plots[regLast'.id]
            /\ regLast'.plotter.data = regLast'.data
            /\ regLast'.plotter.config =
                 IF regLast'.config = None THEN DefaultConfig
                 ELSE regLast'.config
            /\ regLast'.plotter.figure = 0]_vars

C1_UnknownIdAsked ==
  /\ regLast.op = "create_plot"
  /\ regLast.id \notin DOMAIN plots
  /\ DOMAIN plots # {}
  /\ regLast.result = None

\* C2: a run of discover_plots that follows a run of discover_plots, over
\* the same chart modules, changes neither the id map nor any category's id
\* list, and when it returns normally no category directory's list holds an
\* id twice.
C2_DiscoveryIdempotent ==
  [][(PureDiscovery(regLast) /\ regLast'.op = "discover") =>
       /\ plots' = plots
       /\ categories' = categories
       /\ ~regLast'.raised =>
            \A i \in 1..Len(PlottersDir) :
              /\ CatHas(categories', PlottersDir[i].category)
              /\ NoDuplicates(CatGet(categories', PlottersDir[i].category))]_vars

C2_DiscoveredTwice ==
  /\ regLast.op = "discover"
  /\ regLast.again
  /\ \E i \in 1..Len(categories) : Len(categories[i].ids) >= 2

\* C3: whatever a chart module's loading fails with, a run of discover_plots
\* returns normally and binds every plotter of every module that loads.
C3_DiscoveryContinues ==
  PureDiscovery(regLast) =>
    /\ ~regLast.raised
    /\ \A i \in 1..Len(PlottersDir) :
         \A j \in 1..Len(PlottersDir[i].modules) :
           LET m == PlottersDir[i].modules[j]
               category == PlottersDir[i].category
           IN loadOutcome[m] = "ok" =>
                \A k \in 1..Len(ModuleMembers(m)) :
                  LET plot_id == MakeId(category, <<Lower(ModuleMembers(m)[k])>>)
                  IN /\ plot_id \in DOMAIN plots
                     /\ plots[plot_id] = ModuleMembers(m)[k]
                     /\ InCategory(categories, category, plot_id)

Flagged(log, plot_id) ==
  \E i \in 1..Len(log) : log[i].kind = "collision" /\ log[i].id = plot_id

\* C4: a run of discover_plots never rebinds an id that is bound to another
\* type without flagging the collision.
C4_DiscoveryFlagsCollision ==
  [][regLast'.discovered =>
       \A plot_id \in DOMAIN plots :
         plots'[plot_id] # plots[plot_id] => Flagged(regLast'.log, plot_id)]_vars

\* C5: every PlotRegistry() yields the one instance; __init__ runs
\* discover_plots once in the process, and a construction that finds the
\* instance there runs no discovery and changes no entry.
C5_SingletonDiscoversOnce ==
  [][/\ objects' <= 1
     /\ initDiscoveries' <= 1
     /\ instance' # 0 => instance' = 1 /\ initDiscoveries' = 1
     /\ regLast'.op \in {"construct", "register", "register_all"} =>
          regLast'.instance = 1
     /\ (instance # 0 /\ regLast'.op = "construct") =>
          /\ ~regLast'.discovered
          /\ plots' = plots
          /\ categories' = categories]_vars

C5_ConstructedAgain ==
  /\ regLast.op = "construct"
  /\ ~regLast.discovered
  /\ initDiscoveries = 1
  /\ pkgImports >= 1
  /\ registers >= 1

ArgNames(sig) == { sig[i].name : i \in 1..Len(sig) }
Mandatory(sig) == { sig[i].name : i \in { j \in 1..Len(sig) : ~sig[j].hasDefault } }

\* C10: for every bound id, each key of get_plot_info(id)['required_params']
\* is a parameter of the bound type's set_columns, set_columns has no
\* parameter without a default that is not such a key, and the caller's
\* dispatch on the collected keys makes a set_columns call that passes every
\* required key to the parameter of that name.
C10_RequiredParamsFitSetColumns ==
  \A plot_id \in DOMAIN plots :
    LET info == get_plot_info(plots, classCategory, plot_id)
        sig == SetColumnsSignature(plots[plot_id])
        keys == { info.required_params[i].name :
                    i \in 1..Len(info.required_params) }
        call == DispatchSetColumns(CollectParams(info, plot_id))
    IN /\ info.found
       /\ keys \subseteq ArgNames(sig)
       /\ Mandatory(sig) \subseteq keys
       /\ call.called
       /\ Len(call.args) <= Len(sig)
       /\ \A i \in 1..Len(call.args) : sig[i].name = call.args[i]
       /\ keys = { call.args[i] : i \in 1..Len(call.args) }

C10_EveryChartBound ==
  /\ { plots[plot_id] : plot_id \in DOMAIN plots } = Classes
  /\ MakeId("statistical", <<"heatmap">>) \in DOMAIN plots
  /\ MakeId("statistical", <<"histogramplotter">>) \in DOMAIN plots

\* C11: get_plot_info on a bound id returns the descriptor of the class bound
\* to it (name, category, description, required column count, multi-series
\* flag, required and optional params) with 'id' equal to the id asked for;
\* on an id that is not bound it returns {} and does not raise; the registry
\* is left as it was.
C11_PlotInfoDescribesBoundType ==
  [][regLast'.op = "get_plot_info" =>
       LET info == regLast'.info
           plot_id == regLast'.id
       IN /\ ~regLast'.raised
          /\ plots' = plots /\ categories' = categories
          /\ plot_id \notin DOMAIN plots => info = NoInfo
          /\ plot_id \in DOMAIN plots =>
               LET cls == plots[plot_id] IN
               /\ info.found
               /\ info.id = plot_id
               /\ info.name = DisplayName(cls)
               /\ info.category = classCategory[cls]
               /\ info.description = Description(cls)
               /\ info.required_columns = RequiredColumns(cls)
               /\ info.supports_multiple_series = SupportsMultipleSeries(cls)
               /\ info.required_params = get_required_params(cls)
               /\ info.optional_params = get_optional_params(cls)]_vars

C11_InfoOfRegisteredName ==
  /\ regLast.op = "get_plot_info"
  /\ regLast.info.found
  /\ regLast.id = MakeId("custom", <<"bar">>)
  /\ regLast.info.name = "Line Plot"

\* C12: get_plots_in_category returns the ids listed under the category in
\* the order they were added (a registration puts its id last), returns the
\* empty list for a category that is not known, and creates no category:
\* get_categories is the same after the lookup as before it.
C12_CategoryListingOrdered ==
  [][/\ regLast'.op = "get_plots_in_category" =>
          /\ ~regLast'.raised
          /\ categories' = categories
          /\ get_categories(categories') = get_categories(categories)
          /\ CatHas(categories, regLast'.category) =>
               regLast'.listing = CatGet(categories, regLast'.category)
          /\ ~CatHas(categories, regLast'.category) =>
               /\ regLast'.listing = <<>>
               /\ ~CatHas(categories', regLast'.category)
     /\ (regLast'.op = "register" /\ instance # 0) =>
          get_plots_in_category(categories', regLast'.id[1]).ids =
            Append(get_plots_in_category(categories, regLast'.id[1]).ids,
                   regLast'.id)]_vars

C12_UnknownCategoryAsked ==
  /\ regLast.op = "get_plots_in_category"
  /\ regLast.category = "nosuchcategory"
  /\ regLast.listing = <<>>
  /\ CatHas(categories, "custom")
  /\ Len(get_categories(categories)) = 4

C14_IdsWellFormed ==
  /\ \A plot_id \in DOMAIN plots :
       /\ Len(plot_id) >= 3
       /\ plot_id[2] = Dot
       /\ IsLower(plot_id)
  /\ \A i \in 1..Len(categories) :
       \A k \in 1..Len(categories[i].ids) :
         LET plot_id == categories[i].ids[k] IN
         /\ plot_id[1] = categories[i].key
         /\ plot_id[2] = Dot
         /\ IsLower(plot_id)
         /\ Rebuild(categories[i].key, plot_id) = plot_id

(***************************************************************************)
(* Properties of the plotters (checked under PlotterSpec).                 *)
(***************************************************************************)
Pipeline == <<"validate_data", "create_plot", "apply_styling", "add_annotations">>

\* C6: a call of plot() that succeeds has called validate_data, create_plot,
\* apply_styling and add_annotations in this order, each once, and returns
\* the figure create_plot returned; no chart type defines plot() itself.
C6_PlotPipelineOrder ==
  /\ \A cls \in Classes : "plot" \notin OwnMethods(cls)
  /\ (plotLast.op = "plot" /\ ~plotLast.raised) =>
       /\ plotLast.calls = Pipeline
       /\ plotLast.result = plotLast.made
       /\ plotLast.result # 0
       /\ plotter.figure = plotLast.result
       /\ plotter.axes = plotLast.result

C6_PlotSucceededAfterReentry ==
  /\ plotLast.op = "plot"
  /\ ~plotLast.raised
  /\ plotLast.reentries = 1
  /\ plotLast.layout = "grouped"

\* C7: when validate_data returns false, plot() raises an error that names
\* the chart type, calls nothing after validate_data, and leaves the
\* plotter's figure and axes as they were.
C7_InvalidDataFailsFast ==
  [][(plotLast'.op = "plot" /\ ~validate_data(plotter).raised
        /\ ~validate_data(plotter).value) =>
       /\ plotLast'.raised
       /\ plotLast'.error = "ValueError"
       /\ plotLast'.message = <<"Invalid data for", DisplayName(plotter.cls)>>
       /\ plotLast'.calls = <<"validate_data">>
       /\ plotter'.figure = plotter.figure
       /\ plotter'.axes = plotter.axes
       /\ nextFig' = nextFig]_vars

C7_InvalidTablePlotted ==
  /\ plotLast.op = "plot"
  /\ plotLast.error = "ValueError"
  /\ plotLast.message = <<"Invalid data for", "Scatter Plot">>
  /\ plotter.data.kind = "table"
  /\ ~Empty(plotter.data)
  /\ plotter.x_column # 0

\* C8: plot() on a freshly created plotter, over a dataset its validate_data
\* accepts, returns an artifact without raising.
C8_DefaultsAlwaysPlot ==
  (plotLast.op = "plot" /\ plotLast.fresh /\ plotLast.valid) => ~plotLast.raised

\* C9: validate_data returns a boolean and never raises, whatever the
\* dataset is, and changes no field of the plotter.
C9_ValidateNeverRaises ==
  [][plotLast'.op = "validate_data" =>
       ~plotLast'.raised /\ plotter' = plotter]_vars

\* C18: no call on a plotter (set_columns, a parameter setter,
\* validate_data, plot) changes the dataset the plotter was created over:
\* its columns and its cell values stay as they were.
C18_DatasetNeverMutated ==
  [][plotter'.data = plotter.data]_vars

C18_StackedSeveralSeries ==
  /\ plotLast.op = "plot"
  /\ ~plotLast.raised
  /\ plotLast.layout = "stacked"
  /\ Len(plotLast.series) = 2
  /\ plotter.data = Table(2, plotter.data.cols)

(***************************************************************************)
(* Properties of the palettes (checked under PaletteSpec).                 *)
(***************************************************************************)
\* C15: get_palette(name, n) for a stored palette and n the number of its
\* colors returns the stored list, color for color in stored order, and the
\* stored palettes are the same after the call as before it.
C15_NativeCountReturnsStored ==
  [][(/\ palLast'.calls = palLast.calls + 1
      /\ palLast'.name \in DOMAIN stored
      /\ palLast'.n_colors = Count(Len(stored[palLast'.name]))) =>
       /\ ~palLast'.raised
       /\ palLast'.value = stored[palLast'.name]
       /\ palLast'.value = all_palettes[palLast'.name]
       /\ stored' = stored]_vars

C15_NativeCountAsked ==
  /\ palLast.op = "get_palette"
  /\ palLast.name = "rdbu"
  /\ palLast.n_colors = Count(10)
  /\ palLast.value = DIVERGING["rdbu"]

\* C16: get_palette(name, n) for a stored palette and a count n other than
\* the number of its colors returns a list of exactly n colors.
C16_OtherCountReturnsThatMany ==
  [][(/\ palLast'.calls = palLast.calls + 1
      /\ palLast'.name \in DOMAIN stored
      /\ palLast'.n_colors.given
      /\ palLast'.n_colors.n >= 0
      /\ palLast'.n_colors.n # Len(stored[palLast'.name])) =>
       /\ ~palLast'.raised
       /\ Len(palLast'.value) = palLast'.n_colors.n]_vars

\* C17: two calls of get_palette with the same name and count return the
\* same, whatever happened in the session between them.
C17_PaletteLookupPure ==
  [][(/\ palLast.op = "get_palette"
      /\ palLast'.calls = palLast.calls + 1
      /\ palLast'.name = palLast.name
      /\ palLast'.n_colors = palLast.n_colors) =>
       /\ palLast'.raised = palLast.raised
       /\ palLast'.value = palLast.value]_vars

(***************************************************************************)
(* Columns that are not in the dataset (checked under PlotterSpec).        *)
(***************************************************************************)
\* the columns a plotter holds in any role, None left out
BoundColumns(p) ==
  ({p.x_column, p.y_column, p.value_column, p.group_column, p.size_column,
    p.color_column}
     \cup { p.y_columns[i] : i \in 1..Len(p.y_columns) }
     \cup { p.value_columns[i] : i \in 1..Len(p.value_columns) }) \ {0}

\* C20: when a column that is not in the dataset is bound in any role,
\* plot() raises; it never renders as if the role had not been set.
C20_NonexistentColumnRaises ==
  ( /\ plotLast.op = "plot"
    /\ plotter.data.kind = "table"
    /\ \E c \in BoundColumns(plotter) : ~Exists(plotter.data, c) )
    => plotLast.raised

(***************************************************************************)
(* Properties of the exporter (checked under ExportSpec).                  *)
(***************************************************************************)
\* C19: a call of export either returns the location
\* EXPORTS_DIR / "<filename>.<format>" with the file written there, or
\* raises; it raises for a format the figure cannot be saved in and for a
\* location that cannot be written; it never returns a location where no
\* file was written.
C19_ExportNeverDropsSilently ==
  [][expLast'.calls = expLast.calls + 1 =>
       LET file_path == PathJoin(EXPORTS_DIR, expLast'.filename,
                                 expLast'.format)
       IN /\ ~expLast'.raised =>
               /\ expLast'.path = file_path
               /\ file_path \in files'
               /\ expLast'.format \in Savable
               /\ DirWritable(file_path, writable)
          /\ expLast'.raised =>
               /\ expLast'.error # None
               /\ expLast'.path = NoPath]_vars

C19_UnwritableLocationAsked ==
  /\ expLast.op = "export"
  /\ expLast.raised
  /\ expLast.error = "PermissionError"
  /\ expLast.format = "png"
  /\ expLast.figure = 1
  /\ expLast.calls = 2
  /\ exportsPresent
  /\ files # {}

(***************************************************************************)
(* Properties of the bar layouts (checked under PlotterSpec).              *)
(***************************************************************************)
\* the sum of the values of the first n of the series at category k
RECURSIVE SumOfSeries(_, _, _, _)
SumOfSeries(data, series, n, k) ==
  IF n = 0 THEN 0
  ELSE SumOfSeries(data, series, n - 1, k) + data.cells[series[n]][k]

\* C21: a bar plot with stacked set is drawn stacked, grouped set or not:
\* one bar series per y-column in declared order, series i starting at
\* category k from the sum of the values of series 1..i-1 at k (zero for
\* the first), so that the top of the last series at k is the sum of all
\* series at k.
C21_StackedBaselines ==
  ( /\ plotLast.op = "plot"
    /\ ~plotLast.raised
    /\ plotter.cls = "BarPlotter"
    /\ plotter.stacked )
    =>
    LET d == plotter.data
        ys == plotter.y_columns
        a == plotLast.artists
        N == Len(ys)
    IN /\ plotLast.layout = "stacked"
       /\ plotLast.series = ys
       /\ Len(a) = N
       /\ \A i \in 1..N :
            /\ a[i].column = ys[i]
            /\ a[i].values = d.cells[ys[i]]
            /\ \A k \in 1..d.rows :
                 a[i].bottom[k] = SumOfSeries(d, ys, i - 1, k)
       /\ N > 0 =>
            \A k \in 1..d.rows :
              a[N].bottom[k] + a[N].values[k] = SumOfSeries(d, ys, N, k)

C21_StackedAndGroupedDrawn ==
  /\ plotLast.op = "plot"
  /\ ~plotLast.raised
  /\ plotter.cls = "BarPlotter"
  /\ plotter.stacked
  /\ plotter.grouped
  /\ plotter.data.rows = 2
  /\ Len(plotLast.artists) = 2
  /\ plotLast.artists[2].bottom = plotter.data.cells[plotter.y_columns[1]]

\* C22: plot() on a bar plotter over a valid dataset with more than one
\* y-column, all columns in the dataset, and neither stacked nor grouped
\* set, returns the grouped layout: one artist per series with one bar per
\* category, each of width bar_width / number of series, the offsets of the
\* group symmetric about the tick and one width apart; create_plot re-enters
\* itself at most once, on this call and on any other.
C22_SeveralSeriesDrawnGrouped ==
  [][plotLast'.op = "plot" =>
       /\ plotLast'.reentries <= 1
       /\ ( /\ plotter.cls = "BarPlotter"
            /\ ~plotter.stacked
            /\ ~plotter.grouped
            /\ plotter.data.kind = "table"
            /\ plotter.data.rows > 0
            /\ Len(plotter.y_columns) > 1
            /\ Exists(plotter.data, plotter.x_column)
            /\ AllExist(plotter.data, plotter.y_columns) )
            =>
            LET a == plotLast'.artists
                N == Len(plotter.y_columns)
            IN /\ ~plotLast'.raised
               /\ plotLast'.layout = "grouped"
               /\ plotLast'.series = plotter.y_columns
               /\ Len(a) = N
               /\ \A i \in 1..N :
                    /\ a[i].column = plotter.y_columns[i]
                    /\ Len(a[i].values) = plotter.data.rows
                    /\ a[i].width.num * BAR_WIDTH.den * N
                         = BAR_WIDTH.num * a[i].width.den
                    /\ a[i].offset.num * a[N + 1 - i].offset.den
                         + a[N + 1 - i].offset.num * a[i].offset.den = 0
               /\ \A i \in 1..(N - 1) :
                    (a[i + 1].offset.num * a[i].offset.den
                       - a[i].offset.num * a[i + 1].offset.den)
                      * a[i].width.den
                    = a[i].width.num * a[i].offset.den * a[i + 1].offset.den
     ]_vars

C22_ReenteredOnce ==
  /\ plotLast.op = "plot"
  /\ ~plotLast.raised
  /\ plotter.cls = "BarPlotter"
  /\ plotLast.reentries = 1
  /\ plotLast.layout = "grouped"
  /\ Len(plotLast.artists) = 2
  /\ plotLast.artists[1].width = Ratio(4, 10)

(***************************************************************************)
(* Properties of the heatmap (checked under PlotterSpec).                  *)
(***************************************************************************)
\* C23: every heatmap drawn in correlation mode has the color scale fixed
\* to [-1, 1], and every heatmap drawn in raw matrix mode has a color scale
\* with no fixed minimum or maximum, whatever was drawn on the plotter
\* before.
C23_ColorScalePerMode ==
  ( /\ plotLast.op = "plot"
    /\ ~plotLast.raised
    /\ plotter.cls = "HeatmapPlotter" )
    =>
    /\ Len(plotLast.artists) = 1
    /\ plotLast.layout = "correlation" =>
         /\ plotLast.artists[1].vmin = "-1"
         /\ plotLast.artists[1].vmax = "1"
    /\ plotLast.layout = "matrix" =>
         /\ plotLast.artists[1].vmin = None
         /\ plotLast.artists[1].vmax = None

(***************************************************************************)
(* Properties of the histogram (checked under PlotterSpec).                *)
(***************************************************************************)
\* the rows of the dataset whose group column holds the value g
RowsOfGroup(d, group_column, g) ==
  { r \in 1..d.rows : d.cells[group_column][r] = g }

\* C24: a histogram drawn with a group column that is in the dataset has
\* exactly one layer for every distinct value the group column holds, each
\* built from the values of the rows of that group and no others, and no
\* layer built from zero rows.
C24_OneLayerPerGroupPresent ==
  ( /\ plotLast.op = "plot"
    /\ ~plotLast.raised
    /\ plotter.cls = "HistogramPlotter"
    /\ Exists(plotter.data, plotter.group_column) )
    =>
    LET d == plotter.data
        a == plotLast.artists
        present == { d.cells[plotter.group_column][r] : r \in 1..d.rows }
                     \ {Missing}
    IN /\ { a[i].group : i \in 1..Len(a) } = present
       /\ Len(a) = Cardinality(present)
       /\ \A i \in 1..Len(a) :
            /\ Len(a[i].values) > 0
            /\ Len(a[i].values)
                 = Cardinality(RowsOfGroup(d, plotter.group_column, a[i].group))
            /\ \A j \in 1..Len(a[i].values) :
                 \E r \in RowsOfGroup(d, plotter.group_column, a[i].group) :
                   d.cells[plotter.value_column][r] = a[i].values[j]

\* C25: the layers of a histogram drawn in groups all have the same bin
\* edges, whatever the values of the single groups are.
C25_GroupLayersShareBinEdges ==
  ( /\ plotLast.op = "plot"
    /\ ~plotLast.raised
    /\ plotter.cls = "HistogramPlotter"
    /\ plotLast.layout = "groups" )
    =>
    \A i, j \in 1..Len(plotLast.artists) :
      plotLast.artists[i].edges = plotLast.artists[j].edges

(***************************************************************************)
(* Properties of the line chart (checked under PlotterSpec).               *)
(***************************************************************************)
\* C26: plot() on a line plotter over a valid dataset, with the x-column
\* and a non-empty list of y-columns bound to columns of the dataset,
\* returns without error and draws exactly one series per y-column, in the
\* order of the list, all against the x-column.
C26_OneLinePerYColumn ==
  [][( /\ plotLast'.op = "plot"
       /\ plotter.cls = "LinePlotter"
       /\ plotter.data.kind = "table"
       /\ plotter.data.rows > 0
       /\ plotter.y_columns # <<>>
       /\ Exists(plotter.data, plotter.x_column)
       /\ AllExist(plotter.data, plotter.y_columns) )
       =>
       /\ ~plotLast'.raised
       /\ plotLast'.series = plotter.y_columns
       /\ Len(plotLast'.artists) = Len(plotter.y_columns)
       /\ \A i \in 1..Len(plotter.y_columns) :
            /\ plotLast'.artists[i].column = plotter.y_columns[i]
            /\ plotLast'.artists[i].against = plotter.x_column
            /\ plotLast'.artists[i].values
                 = plotter.data.cells[plotter.y_columns[i]]
     ]_vars

(***************************************************************************)
(* The category index against the id map (checked under Spec).             *)
(***************************************************************************)
\* the places (category, position) where the category index lists plot_id
PlacesOf(C, plot_id) ==
  { pl \in UNION { {<<i, k>> : k \in 1..Len(C[i].ids)} : i \in 1..Len(C) } :
      C[pl[1]].ids[pl[2]] = plot_id }

\* C27: every id bound in the id map is listed exactly once in the category
\* index, under the category that is its prefix; every id listed is bound;
\* no category lists an id twice.
C27_IndexAgreesWithMap ==
  /\ \A plot_id \in DOMAIN plots :
       /\ Cardinality(PlacesOf(categories, plot_id)) = 1
       /\ \A pl \in PlacesOf(categories, plot_id) :
            categories[pl[1]].key = plot_id[1]
  /\ \A i \in 1..Len(categories) :
       /\ NoDuplicates(categories[i].ids)
       /\ \A k \in 1..Len(categories[i].ids) :
            categories[i].ids[k] \in DOMAIN plots

\* C28: after every step, get_plot_info of every bound id reports the
\* category that is the first part of the id; and a step that leaves an id
\* bound to the same type leaves the category reported for it as it was.
C28_InfoCategoryIsIdCategory ==
  [][/\ \A plot_id \in DOMAIN plots' :
          get_plot_info(plots', classCategory', plot_id).category = plot_id[1]
     /\ \A plot_id \in DOMAIN plots \cap DOMAIN plots' :
          plots'[plot_id] = plots[plot_id] =>
            get_plot_info(plots', classCategory', plot_id).category
              = get_plot_info(plots, classCategory, plot_id).category]_vars

(***************************************************************************)
(* Plotting twice (checked under PlotterSpec).                             *)
(***************************************************************************)
\* C29: a call of plot() that follows a successful call of plot() on the
\* same plotter, nothing having been set in between, succeeds too and
\* draws the same series with the same layout.
C29_PlotRepeatable ==
  [][( /\ plotLast.op = "plot"
       /\ ~plotLast.raised
       /\ plotLast'.op = "plot" )
       =>
       /\ ~plotLast'.raised
       /\ plotLast'.series = plotLast.series
       /\ plotLast'.layout = plotLast.layout
       /\ plotLast'.artists = plotLast.artists]_vars

(***************************************************************************)
(* The session's stored plot and plotter (checked under SessionSpec).      *)
(***************************************************************************)
\* C30: after every create_plot request, whenever a figure and a plotter
\* are both stored, the stored figure is the one the stored plotter made;
\* and a request that did not end in a figure (unknown id, set_columns or
\* plot() failing) leaves the stored figure and the stored plotter as they
\* were before it.
C30_StoredPlotAndPlotterAgree ==
  [][sessLast'.op = "create_plot" =>
       /\ (current_plot' # 0 /\ plotter_instance' # NoPlotter)
            => plotter_instance'.figure = current_plot'
       /\ sessLast'.outcome # "created"
            => /\ current_plot' = current_plot
               /\ plotter_instance' = plotter_instance]_vars

====
